---- MODULE Spec2Model ----
(***************************************************************************)
(* Model of the typescript-dependency-injector library: the provider       *)
(* hierarchy (Factory, Singleton, Delegate and the shared override stack   *)
(* of BaseProvider) and the wiring engine of createInject (wire, unwire,   *)
(* the method wrapper and findProviderByToken).                            *)
(*                                                                         *)
(* JavaScript values are records [t, v]: t is the kind of the value, v its *)
(* payload (a number, the index of an object on the heap, the index of a   *)
(* provider in the Providers table).                                       *)
(***************************************************************************)
EXTENDS Integers, Sequences, FiniteSets, TLC

\* ------------------------------------------------------------------------
\* Bounds of the model
\* ------------------------------------------------------------------------
\* total number of overrides held by all override stacks together
MaxOverrides == 2
\* number of objects the targets may construct in one behaviour
MaxObjs == 2
\* number of Delegates the provider accessor creates in one behaviour
MaxDelegates == 2
\* number of objects of a value graph handed to resolveProviders
MaxNodes == 2

\* the elements of a sequence
SeqRange(q) == {q[k] : k \in DOMAIN q}

\* ------------------------------------------------------------------------
\* JavaScript values
\* ------------------------------------------------------------------------
Undef == [t |-> "undef", v |-> 0]
Null == [t |-> "null", v |-> 0]
Num(n) == [t |-> "num", v |-> n]
\* a class instance: the v-th object constructed
Obj(n) == [t |-> "obj", v |-> n]
\* the provider object Providers[i]
Prov(i) == [t |-> "prov", v |-> i]
\* an object literal that is not a provider: Plain(0) is {}, Plain(1) is
\* { provide: "not a function" }
Plain(k) == [t |-> "plain", v |-> k]
\* a plain record { k1: v1, ... }: its keys and values in insertion order
Rec(pairs) == [t |-> "rec", v |-> pairs]
\* new Extend(defaults), defaults a plain record given by its pairs
Ext(pairs) == [t |-> "extend", v |-> pairs]
\* a reference to the n-th object of the value graph handed to
\* resolveProviders, and to the k-th container resolveProviders created
Ref(n) == [t |-> "ref", v |-> n]
New(k) == [t |-> "new", v |-> k]
\* a function value (not a provider target): () => 7
Fn == [t |-> "fn", v |-> 0]
\* a boolean
Bool(b) == [t |-> "bool", v |-> b]
\* a string
Str(s) == [t |-> "str", v |-> s]
\* the d-th Delegate created by the provider accessor
Dlg(d) == [t |-> "delegate", v |-> d]
\* "no value yet" of the history variables (never a JavaScript value)
NoVal == [t |-> "none", v |-> 0]

\* ------------------------------------------------------------------------
\* The providers of the model.  kind "Duck" is an object literal
\* { provide: () => num } that does not extend BaseProvider.
\* target: "class"  a class, constructed with new
\*         "fnEcho" the function (x) => x
\*         "fnNum"  the function () => num
\*         "fnThrow" the function () => { throw new Error() }
\* ------------------------------------------------------------------------
Providers ==
  << [kind |-> "Factory",   target |-> "class",  num |-> 0,  injectedArgs |-> << Prov(4) >>, delegated |-> 0],
     [kind |-> "Singleton", target |-> "fnEcho", num |-> 0,  injectedArgs |-> << >>,         delegated |-> 0],
     [kind |-> "Factory",   target |-> "fnEcho", num |-> 0,  injectedArgs |-> << >>,         delegated |-> 0],
     [kind |-> "Singleton", target |-> "class",  num |-> 0,  injectedArgs |-> << >>,         delegated |-> 0],
     [kind |-> "Duck",      target |-> "fnNum",  num |-> 42, injectedArgs |-> << >>,         delegated |-> 0],
     \* providers owned by the containers (see Containers)
     [kind |-> "Factory",   target |-> "fnNum",  num |-> 11, injectedArgs |-> << >>,         delegated |-> 0],
     [kind |-> "Factory",   target |-> "fnNum",  num |-> 12, injectedArgs |-> << >>,         delegated |-> 0],
     [kind |-> "Factory",   target |-> "fnNum",  num |-> 21, injectedArgs |-> << >>,         delegated |-> 0],
     \* new Delegate(Providers[2])
     [kind |-> "Delegate",  target |-> "none",   num |-> 0,  injectedArgs |-> << >>,         delegated |-> 2],
     \* providers of the two instances of the container class App (see Apps)
     [kind |-> "Singleton", target |-> "class",  num |-> 0,  injectedArgs |-> << >>,         delegated |-> 0],
     [kind |-> "Factory",   target |-> "class",  num |-> 0,  injectedArgs |-> << Prov(10) >>, delegated |-> 0],
     [kind |-> "Delegate",  target |-> "none",   num |-> 0,  injectedArgs |-> << >>,         delegated |-> 10],
     [kind |-> "Singleton", target |-> "class",  num |-> 0,  injectedArgs |-> << >>,         delegated |-> 0],
     [kind |-> "Factory",   target |-> "class",  num |-> 0,  injectedArgs |-> << Prov(13) >>, delegated |-> 0],
     [kind |-> "Delegate",  target |-> "none",   num |-> 0,  injectedArgs |-> << >>,         delegated |-> 13],
     \* providers with an Extend argument: 16 is the logger the defaults
     \* refer to, 17 new Factory(Service, new Extend({ logger, port: 80 })),
     \* 18 new Factory((c, l) => c, new Extend({ timeout: 5000 }), logger)
     [kind |-> "Factory",   target |-> "fnNum",  num |-> 99, injectedArgs |-> << >>,         delegated |-> 0],
     [kind |-> "Factory",   target |-> "class",  num |-> 0,
      injectedArgs |-> << Ext(<< [k |-> "logger", val |-> Prov(16)],
                                 [k |-> "port", val |-> Num(80)] >>) >>,          delegated |-> 0],
     [kind |-> "Factory",   target |-> "fnEcho", num |-> 0,
      injectedArgs |-> << Ext(<< [k |-> "timeout", val |-> Num(5000)] >>),
                          Prov(16) >>,                                            delegated |-> 0],
     \* new Singleton(Service, new Extend({ logger }))
     [kind |-> "Singleton", target |-> "class",  num |-> 0,
      injectedArgs |-> << Ext(<< [k |-> "logger", val |-> Prov(16)] >>) >>,       delegated |-> 0],
     \* providers whose construction can fail: 20 a Factory whose target
     \* throws, 21 new Singleton(Service, Providers[20]), 22 a Singleton whose
     \* target throws
     [kind |-> "Factory",   target |-> "fnThrow", num |-> 0, injectedArgs |-> << >>,         delegated |-> 0],
     [kind |-> "Singleton", target |-> "class",   num |-> 0, injectedArgs |-> << Prov(20) >>, delegated |-> 0],
     [kind |-> "Singleton", target |-> "fnThrow", num |-> 0, injectedArgs |-> << >>,         delegated |-> 0] >>

ProvIds == DOMAIN Providers
\* instances of BaseProvider (they carry PROVIDER_SYMBOL and an override stack)
BaseIds == {p \in ProvIds : Providers[p].kind # "Duck"}
SingletonIds == {p \in ProvIds : Providers[p].kind = "Singleton"}
\* the providers the provider operations are applied to
Standalone == 1..5
\* the providers the application calls provide() on
Provided == (Standalone \cap BaseIds) \cup {9}

\* the argument lists a caller passes to provide()
ProvideArgs == { << >>, << Num(7) >>, << Null >> }
\* the values a caller passes to override(): providers and non-providers
OverrideArgs == { Undef, Null, Num(0), Num(5), Plain(0), Plain(1) }
                  \cup { Prov(i) : i \in Standalone }
\* the providers with an Extend argument (and a Factory without one) the
\* application calls provide() on, and the argument lists it passes: the
\* first argument is the context
ExtendProvided == {1, 17, 18, 19}
ExtendArgs ==
  { << >>, << Undef >>, << Null >>, << Rec(<< >>) >>,
    << Rec(<< [k |-> "requestId", val |-> Num(1)] >>) >>,
    << Rec(<< [k |-> "logger", val |-> Prov(3)] >>) >>,
    << Rec(<< [k |-> "port", val |-> Num(8080)], [k |-> "logger", val |-> Num(9)] >>) >>,
    << Rec(<< [k |-> "timeout", val |-> Num(3000)] >>), Num(2) >> }
\* the providers override() is applied to, and the ones pushed as overrides
Overridable == {1, 2}
Candidates == {3, 4, 5}

\* ------------------------------------------------------------------------
\* Containers, tokens and decorated methods of the wiring engine
\* ------------------------------------------------------------------------
\* own property keys of a container, in Reflect.ownKeys order
Keys == << "a", "b" >>
\* the container instances handed to wire(): container 1 holds a provider
\* under both keys, container 2 holds a provider under "a" and a plain number
\* under "b", container 3 holds a Singleton under "a" and a Factory that
\* injects this Singleton under "b"
Containers ==
  << [a |-> Prov(6), b |-> Prov(7)],
     [a |-> Prov(8), b |-> Num(5)],
     [a |-> Prov(4), b |-> Prov(1)] >>
ContIds == DOMAIN Containers
\* two createInject({ containerClass }) calls on the same container class
APIs == {"A", "B"}
\* the containers the application wires through each API
WiredThrough == [A |-> {1, 2}, B |-> {1}]

\* two instances of one container class App extends DeclarativeContainer
\*   db = new Singleton(Database); api = new Factory(Api, this.db);
\*   ref = this.db.provider; name = 5
\* every instance holds providers of its own, created by its field
\* initializers; AppKeys are the own keys in Reflect.ownKeys order
AppKeys == << "db", "api", "ref", "name" >>
\* variant: the Singleton is created once per class and shared by the
\* instances
Apps_SharedSingleton ==
  << [db |-> Prov(10), api |-> Prov(11), ref |-> Prov(12), name |-> Num(5)],
     [db |-> Prov(10), api |-> Prov(14), ref |-> Prov(15), name |-> Num(5)] >>

Apps ==
  << [db |-> Prov(10), api |-> Prov(11), ref |-> Prov(12), name |-> Num(5)],
     [db |-> Prov(13), api |-> Prov(14), ref |-> Prov(15), name |-> Num(5)] >>
AppIds == DOMAIN Apps
\* a static member of the class: absent, a data property holding v, or the
\* accessor that initDeclarativeContainer defines, get: () => instance[key]
\* of the instance inst
Absent == [kind |-> "absent", inst |-> 0, v |-> NoVal]
Data(v) == [kind |-> "data", inst |-> 0, v |-> v]
Getter(inst) == [kind |-> "getter", inst |-> inst, v |-> NoVal]
\* the static members of the class App before initDeclarativeContainer: the
\* one it declares itself, under the key of one of its provider fields
\* (static ref = 9), and the own property name that every class has, holding
\* the class's name
ClassStatics == [key \in SeqRange(AppKeys) |->
                   CASE key = "ref" -> Data(Num(9))
                     [] key = "name" -> Data(Str("App"))
                     [] OTHER -> Absent]
\* what the application passes to override() on the providers of an App
AppOverrideArgs == { Prov(3), Prov(5) }

\* getTokenFor / getProviderTokenFor: the symbol memoized per key; the two
\* registries hold different symbols for the same key
getTokenFor(key) == [key |-> key, asProvider |-> FALSE]
getProviderTokenFor(key) == [key |-> key, asProvider |-> TRUE]

\* the container classes tokens are asked for, the own keys of their
\* instances in Reflect.ownKeys order, and the keys that hold a provider
ContainerClasses == {"App", "Other"}
OwnKeys == << "a", "b" >>
ProviderKeys == [App |-> << "a", "b" >>, Other |-> << "a" >>]
\* the registries before the first call
NoTokens == [cls \in ContainerClasses |-> [key \in SeqRange(OwnKeys) |-> 0]]

\* decorated methods (target, propertyKey), their parameter indices and the
\* uses of a marker on a parameter that the application makes
Methods == {"m1"}
MarkerUses ==
  { [m |-> "m1", paramIndex |-> 0, token |-> getTokenFor("a")],
    [m |-> "m1", paramIndex |-> 1, token |-> getTokenFor("b")],
    [m |-> "m1", paramIndex |-> 0, token |-> getProviderTokenFor("a")] }
\* the uses of a marker on a constructor parameter of the class K
CtorMarkerUses ==
  { [constructor |-> "K", paramIndex |-> 0, token |-> getTokenFor("a")],
    [constructor |-> "K", paramIndex |-> 1, token |-> getTokenFor("b")] }
\* number of decoration sites (of methods and constructors together)
\* recorded in one behaviour
MaxSites == 2
\* the argument lists a caller passes to a decorated method
CallArgs == { << >>, << Null >>, << Undef, Num(3) >>, << Num(3), Undef >> }
\* the receiver of the calls
Receiver == "self"

VARIABLES
  overriding,   \* BaseProvider._overridingProviders of every provider
  instance,     \* Singleton.instance of every Singleton
  objCount,     \* number of objects constructed so far
  last,         \* the last provider operation: its call and its outcome
  firstRet,     \* per Singleton: what its first non-overridden provide()
                \* since construction or the last resetInstance() returned
  sites,        \* DECORATION_SITES of the container class
  ctorSites,    \* CONSTRUCTOR_DECORATION_SITES of the container class
  injectable,   \* what the name K is bound to: << >> is the class itself,
                \* << proxy >> the Proxy that Injectable returned for it
  wiredContainers, \* per createInject call: the wired containers, in
                \* insertion order of the Set
  wrappedMethods,  \* per createInject call: the methods it has wrapped
  method,       \* per method: the wrappers stacked on the original function,
                \* innermost first; << >> is the original function itself
  lastCall,     \* the call of a decorated method made by the last step
  wiredSet,     \* history, per createInject call: the containers wired and
                \* not unwired since
  wiredBefore,  \* history, per createInject call: << c, d >> when the
                \* wire() that activated c preceded the one that activated d
  containerProviderTokens,        \* CONTAINER_PROVIDER_TOKENS: per container
                \* class and key the symbol, 0 when there is no entry
  containerProviderAsValueTokens, \* CONTAINER_PROVIDER_AS_VALUE_TOKENS
  symbolCount,  \* number of symbols created by Symbol(...)
  issued,       \* history: every token getTokenFor and getProviderTokenFor
                \* returned, with the container class and the key asked for
  delegates,    \* the Delegates created by the provider accessor, in order
                \* of creation: the provider each one wraps
  statics,      \* the static members of the container class App, per key
  constructed,  \* number of instances of App constructed so far
  internals,    \* history: the instances that the calls of
                \* initDeclarativeContainer constructed, in order
  snapshots,    \* the array the application holds from its last read of
                \* the overrides accessor, << >> before the first read: the
                \* provider it was read from and the array's items
  net,          \* the configuration a provide() call runs on (see Nets)
  frames,       \* the call stack of the provide() call in progress
  run,          \* the provide() call of the application: its status, the
                \* provider asked and the value the last return handed back
  cached        \* Singleton.instance of every provider of the net

provVars == << overriding, instance, objCount, last, firstRet >>
wireVars == << sites, ctorSites, injectable, wiredContainers, wrappedMethods,
              method, lastCall, wiredSet, wiredBefore >>
tokenVars == << containerProviderTokens, containerProviderAsValueTokens,
               symbolCount, issued >>
staticVars == << statics, constructed, internals >>
recursionVars == << net, frames, run, cached >>
vars == << overriding, instance, objCount, last, firstRet,
           sites, ctorSites, injectable, wiredContainers, wrappedMethods,
           method, lastCall, wiredSet, wiredBefore,
           containerProviderTokens, containerProviderAsValueTokens,
           symbolCount, issued, delegates, statics, constructed, internals,
           snapshots, net, frames, run, cached >>

\* ------------------------------------------------------------------------
\* Type guards
\* ------------------------------------------------------------------------
\* JavaScript truthiness of a value (the !provider test of override)
Truthy(x) ==
  CASE x.t = "undef" -> FALSE
    [] x.t = "null" -> FALSE
    [] x.t = "num" -> x.v # 0
    [] OTHER -> TRUE

\* typeof x.provide for a truthy value x
TypeofProvide(x) ==
  CASE x.t = "prov" -> "function"
    [] x.t = "plain" /\ x.v = 1 -> "string"
    [] OTHER -> "undefined"

\* utils.ts isProvider: the value carries PROVIDER_SYMBOL
isProvider(x) == x.t = "prov" /\ x.v \in BaseIds

\* ------------------------------------------------------------------------
\* provide(): computed on a resolution state
\*   st = [inst, objs, invoked, first]
\* inst and objs are the Singleton caches and the number of objects as the
\* call leaves them, invoked the providers whose target the call invoked, in
\* order, first the history variable firstRet.
\* Every operator returns [ret, st].
\* ------------------------------------------------------------------------
RECURSIVE provide(_, _, _)
RECURSIVE resolveInjected(_, _, _, _)
RECURSIVE resolveDefaults(_, _, _, _)

NthArg(args, i) == IF i <= Len(args) THEN args[i] ELSE Undef

\* the element of a one-element set; { e(x) : x \in {v} } is e with x bound
\* to the value of v, computed once
Only(S) == CHOOSE x \in S : TRUE

\* an exception is propagating
Throws(st) == st.err # "none"

\* new target(...args) or target(...args); a constructed instance keeps
\* nothing of the model's interest, the argument list is recorded in passed
InvokeTarget(p, args, st) ==
  LET P == Providers[p]
      called == [st EXCEPT !.invoked = Append(@, p), !.passed = Append(@, args)]
  IN CASE P.target = "class" ->
            [ret |-> Obj(st.objs + 1), st |-> [called EXCEPT !.objs = @ + 1]]
       [] P.target = "fnEcho" ->
            [ret |-> NthArg(args, 1), st |-> called]
       [] P.target = "fnThrow" ->
            [ret |-> Undef, st |-> [called EXCEPT !.err = "Error"]]
       [] OTHER ->
            [ret |-> Num(P.num), st |-> called]

\* BaseProvider._delegateIfOverridden
delegateIfOverridden(p, args, st) ==
  IF Len(overriding[p]) > 0
    THEN provide(overriding[p][Len(overriding[p])].v, args, st)
    ELSE [ret |-> Undef, st |-> st]

\* utils.ts resolveProviders on a value that is not a container (a scalar,
\* a class instance or a provider)
\* variant: a function value is invoked and replaced by what it returns
resolveProviders_CallsFunctions(value, st) ==
  IF isProvider(value)
    THEN provide(value.v, << >>, st)
    ELSE IF value.t = "fn"
           THEN [ret |-> Num(7), st |-> [st EXCEPT !.invoked = Append(@, 0)]]
           ELSE [ret |-> value, st |-> st]

\* variant: a provider that was already asked during this resolution is not
\* asked again, its value is reused
resolveProviders_OncePerProvider(value, st) ==
  IF isProvider(value)
    THEN IF \E j \in DOMAIN st.invoked : st.invoked[j] = value.v
           THEN [ret |-> IF Providers[value.v].target = "fnEcho"
                           THEN Undef ELSE Num(Providers[value.v].num),
                 st |-> st]
           ELSE provide(value.v, << >>, st)
    ELSE [ret |-> value, st |-> st]

\* utils.ts resolveProviders on a value that is not a container: null,
\* undefined, a primitive and a function are returned as they are, a provider
\* is replaced by provide()
resolveProviders(value, st) ==
  IF isProvider(value)
    THEN provide(value.v, << >>, st)
    ELSE [ret |-> value, st |-> st]

\* extend.ts isExtend
isExtend(value) == value.t = "extend"

\* variant: no key is ever found in the context
HasKey_Never(context, key) == FALSE

\* key in context
HasKey(context, key) ==
  context.t = "rec" /\ \E k \in DOMAIN context.v : context.v[k].k = key

\* the right operand of the in operator must be an object: undefined, null
\* and primitives make it throw a TypeError
InThrows(context) == context.t \in {"undef", "null", "num"}

\* { ...resolvedDefaults, ...context }: a key of context that is present
\* keeps its position and takes the value of context, a new key is appended;
\* spreading undefined, null or a number adds nothing
RECURSIVE Spread(_, _, _)
Spread(pairs, context, i) ==
  IF context.t # "rec" \/ i > Len(context.v)
    THEN pairs
    ELSE LET e == context.v[i]
             at == {k \in DOMAIN pairs : pairs[k].k = e.k}
         IN Spread(IF at = {}
                     THEN Append(pairs, e)
                     ELSE [k \in DOMAIN pairs |-> IF k \in at THEN e ELSE pairs[k]],
                   context, i + 1)

\* one key of defaults resolved to v = [ret, st]: resolvedDefaults[key] = v.ret,
\* then the next key
ResolvedDefault(defaults, i, context, r, v) ==
  IF Throws(v.st)
    THEN [ret |-> r.ret, st |-> v.st]
    ELSE resolveDefaults(defaults, i + 1, context,
                         [ret |-> Append(r.ret, [k |-> defaults[i].k, val |-> v.ret]),
                          st |-> v.st])

\* the loop of _resolveArg over the keys of defaults, from key i;
\* r = [ret, st], ret the pairs of resolvedDefaults so far
resolveDefaults(defaults, i, context, r) ==
  IF i > Len(defaults)
    THEN r
    ELSE IF InThrows(context)
           THEN [r EXCEPT !.st.err = "TypeError"]
           ELSE IF HasKey(context, defaults[i].k)
                  THEN resolveDefaults(defaults, i + 1, context, r)
                  ELSE Only({ ResolvedDefault(defaults, i, context, r, v) :
                                v \in {resolveProviders(defaults[i].val, r.st)} })

\* the value _resolveArg returns for an Extend argument once the loop over
\* defaults ended in rd = [ret, st]
Merged(context, rd) ==
  IF Throws(rd.st)
    THEN [ret |-> Undef, st |-> rd.st]
    ELSE [ret |-> Rec(Spread(rd.ret, context, 1)), st |-> rd.st]

\* Factory._resolveArg
resolveArg(arg, contextArgs, st) ==
  IF isExtend(arg)
    THEN Only({ Merged(context, rd) :
                  context \in {IF Len(contextArgs) > 0 THEN contextArgs[1] ELSE Rec(<< >>)},
                  rd \in {resolveDefaults(arg.v, 1,
                            IF Len(contextArgs) > 0 THEN contextArgs[1] ELSE Rec(<< >>),
                            [ret |-> << >>, st |-> st])} })
    ELSE resolveProviders(arg, st)

Prepend(x, rest) == [ret |-> << x >> \o rest.ret, st |-> rest.st]

\* one injected argument resolved to v = [ret, st], then the next ones
Mapped(injected, i, contextArgs, v) ==
  IF Throws(v.st)
    THEN [ret |-> << >>, st |-> v.st]
    ELSE Prepend(v.ret, resolveInjected(injected, i + 1, contextArgs, v.st))

\* this.injectedArgs.map((arg) => this._resolveArg(arg, args)), from index i
resolveInjected(injected, i, contextArgs, st) ==
  IF i > Len(injected)
    THEN [ret |-> << >>, st |-> st]
    ELSE Only({ Mapped(injected, i, contextArgs, v) :
                  v \in {resolveArg(injected[i], contextArgs, st)} })

\* this.injectedArgs.some((arg) => isExtend(arg))
hasExtend(p) ==
  \E k \in DOMAIN Providers[p].injectedArgs : isExtend(Providers[p].injectedArgs[k])

\* variant: the call arguments are prepended with an Extend argument too
FactoryProvide_AlwaysPrepends(p, args, st) ==
  Only({ IF Throws(overridden.st) \/ overridden.ret # Undef
           THEN overridden
           ELSE Only({ IF Throws(resolvedArgs.st)
                         THEN [ret |-> Undef, st |-> resolvedArgs.st]
                         ELSE InvokeTarget(p, args \o resolvedArgs.ret, resolvedArgs.st) :
                       resolvedArgs \in {resolveInjected(Providers[p].injectedArgs, 1,
                                                         args, overridden.st)} }) :
         overridden \in {delegateIfOverridden(p, args, st)} })

\* Factory.provide
FactoryProvide(p, args, st) ==
  Only({ IF Throws(overridden.st) \/ overridden.ret # Undef
           THEN overridden
           ELSE Only({ IF Throws(resolvedArgs.st)
                         THEN [ret |-> Undef, st |-> resolvedArgs.st]
                         ELSE IF hasExtend(p)
                                THEN InvokeTarget(p, resolvedArgs.ret, resolvedArgs.st)
                                ELSE InvokeTarget(p, args \o resolvedArgs.ret, resolvedArgs.st) :
                       resolvedArgs \in {resolveInjected(Providers[p].injectedArgs, 1,
                                                         args, overridden.st)} }) :
         overridden \in {delegateIfOverridden(p, args, st)} })

\* history: the first value a non-overridden provide() of p returned
NoteFirst(p, r) ==
  IF Len(overriding[p]) = 0 /\ r.st.first[p] = NoVal
    THEN [r EXCEPT !.st.first[p] = r.ret]
    ELSE r

\* variant: a construction that fails leaves undefined in the cache
SingletonProvide_CachesFailure(p, args, st) ==
  Only({ IF Throws(overridden.st) \/ overridden.ret # Undef
           THEN overridden
           ELSE IF overridden.st.inst[p] = Null
                  THEN Only({ IF Throws(made.st)
                                THEN [made EXCEPT !.st.inst[p] = Undef]
                                ELSE NoteFirst(p, [ret |-> made.ret,
                                                   st |-> [made.st EXCEPT
                                                             !.inst[p] = made.ret]]) :
                              made \in {FactoryProvide(p, args, overridden.st)} })
                  ELSE NoteFirst(p, [ret |-> overridden.st.inst[p],
                                     st |-> overridden.st]) :
         overridden \in {delegateIfOverridden(p, args, st)} })

\* Singleton.provide
SingletonProvide(p, args, st) ==
  Only({ IF Throws(overridden.st) \/ overridden.ret # Undef
           THEN overridden
           ELSE IF overridden.st.inst[p] = Null
                  THEN Only({ IF Throws(made.st)
                                THEN made
                                ELSE NoteFirst(p, [ret |-> made.ret,
                                                   st |-> [made.st EXCEPT
                                                             !.inst[p] = made.ret]]) :
                              made \in {FactoryProvide(p, args, overridden.st)} })
                  ELSE NoteFirst(p, [ret |-> overridden.st.inst[p],
                                     st |-> overridden.st]) :
         overridden \in {delegateIfOverridden(p, args, st)} })

\* variant: a Delegate resolves the provider it wraps
DelegateProvide_Resolves(p, st) ==
  Only({ IF Throws(overridden.st) \/ overridden.ret # Undef
           THEN overridden
           ELSE provide(Providers[p].delegated, << >>, overridden.st) :
         overridden \in {delegateIfOverridden(p, << >>, st)} })

\* Delegate.provide
DelegateProvide(p, st) ==
  Only({ IF Throws(overridden.st) \/ overridden.ret # Undef
           THEN overridden
           ELSE [ret |-> Prov(Providers[p].delegated), st |-> overridden.st] :
         overridden \in {delegateIfOverridden(p, << >>, st)} })

provide(p, args, st) ==
  CASE Providers[p].kind = "Factory" -> FactoryProvide(p, args, st)
    [] Providers[p].kind = "Singleton" -> SingletonProvide(p, args, st)
    [] Providers[p].kind = "Delegate" -> DelegateProvide(p, st)
    [] OTHER -> [ret |-> Num(Providers[p].num), st |-> st]

\* the resolution state a call starts from
Now == [inst |-> instance, objs |-> objCount, invoked |-> << >>, first |-> firstRet,
        passed |-> << >>, err |-> "none"]

\* number of times p occurs in the sequence s
Count(s, p) == Cardinality({i \in DOMAIN s : s[i] = p})

\* ------------------------------------------------------------------------
\* Provider operations
\* ------------------------------------------------------------------------
NoOp == [op |-> "none", p |-> 0, args |-> << >>, x |-> Undef, ret |-> Undef,
         rets |-> << >>, err |-> "none", invoked |-> << >>, wasOverridden |-> FALSE,
         before |-> << >>, passed |-> << >>, objsBefore |-> 0,
         heap |-> << >>, out |-> << >>, resolved |-> << >>, prev |-> << >>]

\* number of overrides held by the stacks of the providers 1..n
RECURSIVE OverridesUpTo(_)
OverridesUpTo(n) ==
  IF n = 0 THEN 0
  ELSE OverridesUpTo(n - 1) + (IF n \in BaseIds THEN Len(overriding[n]) ELSE 0)

TotalOverrides == OverridesUpTo(Len(Providers))

\* override(x) as it would be with an instanceof BaseProvider validation
Override_RequiresBaseProvider(p, x) ==
  /\ IF ~isProvider(x)
       THEN /\ last' = [NoOp EXCEPT !.op = "override", !.p = p, !.x = x,
                                    !.err = "Override argument must be a provider",
                                    !.wasOverridden = Len(overriding[p]) > 0,
                                    !.before = overriding[p]]
            /\ UNCHANGED overriding
       ELSE /\ TotalOverrides < MaxOverrides
            /\ x.v \in Candidates
            /\ overriding' = [overriding EXCEPT ![p] = Append(@, x)]
            /\ last' = [NoOp EXCEPT !.op = "override", !.p = p, !.x = x,
                                    !.wasOverridden = Len(overriding[p]) > 0,
                                    !.before = overriding[p]]
  /\ UNCHANGED << instance, objCount, firstRet, wireVars, tokenVars, delegates, staticVars, snapshots, recursionVars >>

\* BaseProvider.override(x)
Override(p, x) ==
  /\ IF ~Truthy(x) \/ TypeofProvide(x) # "function"
       THEN /\ last' = [NoOp EXCEPT !.op = "override", !.p = p, !.x = x,
                                    !.err = "Override argument must be a provider",
                                    !.wasOverridden = Len(overriding[p]) > 0,
                                    !.before = overriding[p]]
            /\ UNCHANGED overriding
       ELSE /\ TotalOverrides < MaxOverrides
            /\ x.v \in Candidates
            /\ overriding' = [overriding EXCEPT ![p] = Append(@, x)]
            /\ last' = [NoOp EXCEPT !.op = "override", !.p = p, !.x = x,
                                    !.wasOverridden = Len(overriding[p]) > 0,
                                    !.before = overriding[p]]
  /\ UNCHANGED << instance, objCount, firstRet, wireVars, tokenVars, delegates, staticVars, snapshots, recursionVars >>

\* variant: resetLastOverriding() on an empty stack is a silent no-op
ResetLastOverriding_Silent(p) ==
  /\ IF Len(overriding[p]) = 0
       THEN /\ last' = [NoOp EXCEPT !.op = "resetLastOverriding", !.p = p]
            /\ UNCHANGED overriding
       ELSE /\ overriding' = [overriding EXCEPT ![p] = SubSeq(@, 1, Len(@) - 1)]
            /\ last' = [NoOp EXCEPT !.op = "resetLastOverriding", !.p = p,
                                    !.ret = overriding[p][Len(overriding[p])],
                                    !.wasOverridden = TRUE]
  /\ UNCHANGED << instance, objCount, firstRet, wireVars, tokenVars, delegates, staticVars, snapshots, recursionVars >>

\* BaseProvider.resetLastOverriding()
ResetLastOverriding(p) ==
  /\ IF Len(overriding[p]) = 0
       THEN /\ last' = [NoOp EXCEPT !.op = "resetLastOverriding", !.p = p,
                                    !.err = "No overriding providers to reset"]
            /\ UNCHANGED overriding
       ELSE /\ overriding' = [overriding EXCEPT ![p] = SubSeq(@, 1, Len(@) - 1)]
            /\ last' = [NoOp EXCEPT !.op = "resetLastOverriding", !.p = p,
                                    !.ret = overriding[p][Len(overriding[p])],
                                    !.wasOverridden = TRUE]
  /\ UNCHANGED << instance, objCount, firstRet, wireVars, tokenVars, delegates, staticVars, snapshots, recursionVars >>

\* variant: one override stack shared by all providers
ResetOverride_Shared(p) ==
  /\ overriding' = [q \in BaseIds |-> << >>]
  /\ last' = [NoOp EXCEPT !.op = "resetOverride", !.p = p, !.rets = overriding[p],
                          !.wasOverridden = Len(overriding[p]) > 0]
  /\ UNCHANGED << instance, objCount, firstRet, wireVars, tokenVars, delegates, staticVars, snapshots, recursionVars >>

\* BaseProvider.resetOverride()
ResetOverride(p) ==
  /\ overriding' = [overriding EXCEPT ![p] = << >>]
  /\ last' = [NoOp EXCEPT !.op = "resetOverride", !.p = p, !.rets = overriding[p],
                          !.wasOverridden = Len(overriding[p]) > 0]
  /\ UNCHANGED << instance, objCount, firstRet, wireVars, tokenVars, delegates, staticVars, snapshots, recursionVars >>

\* p.provide(...args), called by the application; r is the outcome of the
\* call, evaluated once
ProvideCall(p, args) ==
  \E r \in {provide(p, args, Now)} :
     /\ r.st.objs <= MaxObjs
     /\ instance' = r.st.inst
     /\ objCount' = r.st.objs
     /\ firstRet' = r.st.first
     /\ last' = [NoOp EXCEPT !.op = "provide", !.p = p, !.args = args, !.ret = r.ret,
                             !.invoked = r.st.invoked, !.passed = r.st.passed,
                             !.err = r.st.err, !.objsBefore = objCount,
                             !.wasOverridden = Len(overriding[p]) > 0]
     /\ UNCHANGED << overriding, wireVars, tokenVars, delegates, staticVars, snapshots, recursionVars >>

\* variant: the accessor memoizes the Delegate of a provider
ProviderAccessor_Memoized(p) ==
  /\ Len(delegates) < MaxDelegates
  /\ IF \E d \in DOMAIN delegates : delegates[d] = p
       THEN /\ UNCHANGED delegates
            /\ last' = [NoOp EXCEPT !.op = "provider", !.p = p,
                                    !.ret = Dlg(CHOOSE d \in DOMAIN delegates :
                                                  delegates[d] = p),
                                    !.objsBefore = Len(delegates),
                                    !.wasOverridden = Len(overriding[p]) > 0]
       ELSE /\ delegates' = Append(delegates, p)
            /\ last' = [NoOp EXCEPT !.op = "provider", !.p = p,
                                    !.ret = Dlg(Len(delegates) + 1),
                                    !.objsBefore = Len(delegates),
                                    !.wasOverridden = Len(overriding[p]) > 0]
  /\ UNCHANGED << overriding, instance, objCount, firstRet, wireVars, tokenVars,
                  staticVars, snapshots, recursionVars >>

\* BaseProvider.provider: return new Delegate(this); last.objsBefore is the
\* number of Delegates that existed
ProviderAccessor(p) ==
  /\ Len(delegates) < MaxDelegates
  /\ delegates' = Append(delegates, p)
  /\ last' = [NoOp EXCEPT !.op = "provider", !.p = p,
                          !.ret = Dlg(Len(delegates) + 1),
                          !.objsBefore = Len(delegates),
                          !.wasOverridden = Len(overriding[p]) > 0]
  /\ UNCHANGED << overriding, instance, objCount, firstRet, wireVars, tokenVars,
                  staticVars, snapshots, recursionVars >>

\* Delegate.provide() of the d-th Delegate the accessor created: nothing
\* overrides that Delegate, so _delegateIfOverridden returns undefined and
\* the result is this.delegatedProvider
DelegateProvideCall(d) ==
  /\ d \in DOMAIN delegates
  /\ last' = [NoOp EXCEPT !.op = "delegate.provide", !.p = d,
                          !.ret = Prov(delegates[d]),
                          !.wasOverridden = Len(overriding[delegates[d]]) > 0]
  /\ UNCHANGED << overriding, instance, objCount, firstRet, wireVars, tokenVars,
                  delegates, staticVars, snapshots, recursionVars >>

\* BaseProvider.isOverridden()
IsOverriddenCall(p) ==
  /\ last' = [NoOp EXCEPT !.op = "isOverridden", !.p = p,
                          !.ret = Bool(Len(overriding[p]) > 0)]
  /\ UNCHANGED << overriding, instance, objCount, firstRet, wireVars, tokenVars,
                  delegates, staticVars, snapshots, recursionVars >>

\* BaseProvider.overrides: return [...this._overridingProviders]; last.rets
\* is the array returned, which the application keeps in place of the one
\* it held
OverridesGetter(p) ==
  /\ snapshots' = << [of |-> p, items |-> overriding[p], pushed |-> FALSE] >>
  /\ last' = [NoOp EXCEPT !.op = "overrides", !.p = p, !.rets = overriding[p]]
  /\ UNCHANGED << overriding, instance, objCount, firstRet, wireVars, tokenVars,
                  delegates, staticVars, recursionVars >>

\* what the application does to an array it holds: push(x), once per
\* array, pop(), length = 0
Mutations == {"push", "pop", "clear"}
Mutated(items, m, x) ==
  IF m = "push" THEN Append(items, x)
  ELSE IF m = "pop" THEN SubSeq(items, 1, Len(items) - 1)
  ELSE << >>

\* variant: the accessor returned the provider's own array, so that the
\* application's mutation is a mutation of the stack
MutateSnapshot_Live(k, m, x) ==
  /\ k \in DOMAIN snapshots
  /\ m = "push" => ~snapshots[k].pushed
  /\ m = "pop" => Len(snapshots[k].items) > 0
  /\ snapshots' = [snapshots EXCEPT ![k].items = Mutated(@, m, x),
                                    ![k].pushed = @ \/ m = "push"]
  /\ overriding' = [overriding EXCEPT ![snapshots[k].of] =
                                        Mutated(snapshots[k].items, m, x)]
  /\ last' = [NoOp EXCEPT !.op = "mutate", !.p = snapshots[k].of,
                          !.x = provide(snapshots[k].of, << >>, Now).ret,
                          !.before = overriding[snapshots[k].of],
                          !.rets = Mutated(snapshots[k].items, m, x)]
  /\ UNCHANGED << instance, objCount, firstRet, wireVars, tokenVars,
                  delegates, staticVars, recursionVars >>

\* the application mutates the k-th array it holds from the accessor: the
\* array is a copy, the provider's _overridingProviders is another object;
\* last.before is the provider's stack and last.x what its provide() would
\* have returned before the mutation
MutateSnapshot(k, m, x) ==
  /\ k \in DOMAIN snapshots
  /\ m = "push" => ~snapshots[k].pushed
  /\ m = "pop" => Len(snapshots[k].items) > 0
  /\ snapshots' = [snapshots EXCEPT ![k].items = Mutated(@, m, x),
                                    ![k].pushed = @ \/ m = "push"]
  /\ last' = [NoOp EXCEPT !.op = "mutate", !.p = snapshots[k].of,
                          !.x = provide(snapshots[k].of, << >>, Now).ret,
                          !.before = overriding[snapshots[k].of],
                          !.rets = Mutated(snapshots[k].items, m, x)]
  /\ UNCHANGED << overriding, instance, objCount, firstRet, wireVars, tokenVars,
                  delegates, staticVars, recursionVars >>

\* Singleton.resetInstance()
ResetInstance(p) ==
  /\ instance' = [instance EXCEPT ![p] = Null]
  /\ firstRet' = [firstRet EXCEPT ![p] = NoVal]
  /\ last' = [NoOp EXCEPT !.op = "resetInstance", !.p = p]
  /\ UNCHANGED << overriding, objCount, wireVars, tokenVars, delegates, staticVars, snapshots, recursionVars >>

\* ------------------------------------------------------------------------
\* resolveProviders on a value graph
\*   g is the graph: per object its kind ("obj" a plain record, "arr" an
\*   array, "map" a Map, "set" a Set, "date" a Date, "regexp" a RegExp,
\*   "inst" a class instance, "duck" a class instance with a provide()
\*   method and no PROVIDER_SYMBOL, "ducklit" an object literal
\*   { provide: () => 7, dep: ... } with no PROVIDER_SYMBOL, whose first
\*   item is the function under the key provide) and its items (the
\*   property values in key order, the elements, the values of the entries
\*   in key order);
\*   r = [seen, resolved, out, st, heap]: the WeakSet seen, the WeakMap
\*   resolved (0: no entry), the containers created so far, the resolution
\*   state and the objects of the graph as they are now
\* ------------------------------------------------------------------------
\* the value graphs handed to resolveProviders; object 1 is the value passed
GraphValues == { Num(1), Prov(16) } \cup { Ref(n) : n \in 1..MaxNodes }
Graphs ==
  [1..MaxNodes -> [kind : {"obj", "arr", "inst"}, items : [1..2 -> GraphValues]]]
\* the graph of the calls that pass a value of its own
NoGraph == [n \in 1..2 |-> [kind |-> "inst", items |-> << Num(1), Num(1) >>]]

\* the graphs of two objects that cover every kind: object 1 is a container
\* that resolveProviders copies, object 2 is of any kind; a Set holds
\* distinct members
CopiedKinds == {"obj", "arr", "map", "set", "ducklit"}
OpaqueKinds == {"date", "regexp", "inst", "duck"}
IsValidNode(nd) ==
  /\ nd.kind = "set" => nd.items[1] # nd.items[2]
  /\ nd.kind = "ducklit" => nd.items[1] = Fn
TypedGraphs ==
  { << n1, n2 >> :
      n1 \in { nd \in [kind : CopiedKinds,
                       items : [1..2 -> { Undef, Null, Num(1), Fn, Prov(16), Prov(3),
                                          Ref(1), Ref(2) }]] : IsValidNode(nd) },
      n2 \in { nd \in [kind : CopiedKinds \cup OpaqueKinds,
                       items : [1..2 -> { Num(1), Prov(16), Ref(1) }]] : IsValidNode(nd) } }
\* the values passed to resolveProviders that are not objects of a graph
TopLevelValues == { Undef, Null, Num(1), Fn, Prov(16), Prov(3) }

RECURSIVE resolveProvidersIn(_, _, _)
RECURSIVE resolveItems(_, _, _, _, _)

\* variant: the resolved item is also written back into the container it
\* was read from
Pushed_InPlace(g, n, k, i, v) ==
  resolveItems(g, n, k, i + 1,
               IF g[n].kind = "set" /\ v.ret \in SeqRange(v.r.out[k].items)
                 THEN [v.r EXCEPT !.heap[n].items[i] = v.ret]
                 ELSE [v.r EXCEPT !.out[k].items = Append(@, v.ret),
                                  !.heap[n].items[i] = v.ret])

\* variant: the item is stored as it is
Pushed_Unresolved(g, n, k, i, v) ==
  resolveItems(g, n, k, i + 1,
               [v.r EXCEPT !.out[k].items = Append(@, g[n].items[i])])

\* resolvedArray.push(v.ret) / resolvedMap.set(key, v.ret) /
\* resolvedSet.add(v.ret) / resolvedObj[key] = v.ret on container k, then the
\* next item; a Set keeps one of equal members
Pushed(g, n, k, i, v) ==
  resolveItems(g, n, k, i + 1,
               IF g[n].kind = "set" /\ v.ret \in SeqRange(v.r.out[k].items)
                 THEN v.r
                 ELSE [v.r EXCEPT !.out[k].items = Append(@, v.ret)])

\* the loop over the items of object n, from item i, filling container k
resolveItems(g, n, k, i, r) ==
  IF i > Len(g[n].items)
    THEN r
    ELSE Pushed(g, n, k, i, resolveProvidersIn(g, g[n].items[i], r))

\* the container k is complete: seen.delete(value); return it
Completed(n, k, r) ==
  [ret |-> New(k), r |-> [r EXCEPT !.seen = @ \ {n}]]

\* a value that is not an object of the graph
Scalar(v, r) == [ret |-> v.ret, r |-> [r EXCEPT !.st = v.st]]

\* variant: an object with a provide() method counts as a provider
PassThrough_DuckTyped(g, n, r) ==
  IF g[n].kind = "duck"
    THEN [ret |-> Num(42), r |-> [r EXCEPT !.st.invoked = Append(@, 0 - n)]]
    ELSE [ret |-> Ref(n), r |-> [r EXCEPT !.seen = @ \cup {n}]]

\* seen.add(value), then a Date, a RegExp or a class instance is returned as
\* it is
PassThrough(g, n, r) ==
  [ret |-> Ref(n), r |-> [r EXCEPT !.seen = @ \cup {n}]]

\* variant: the already resolved containers are not looked up
resolveProvidersIn_NoMemo(g, value, r) ==
  IF value.t # "ref"
    THEN Scalar(resolveProviders(value, r.st), r)
    ELSE IF value.v \in r.seen
           THEN [ret |-> value, r |-> r]
           ELSE IF g[value.v].kind \in OpaqueKinds
                  THEN PassThrough(g, value.v, r)
                  ELSE Completed(value.v, Len(r.out) + 1,
                         resolveItems(g, value.v, Len(r.out) + 1, 1,
                           [r EXCEPT !.seen = @ \cup {value.v},
                                     !.resolved[value.v] = Len(r.out) + 1,
                                     !.out = Append(@, [kind |-> g[value.v].kind,
                                                        items |-> << >>])]))

\* utils.ts resolveProviders(value, seen, resolved)
resolveProvidersIn(g, value, r) ==
  IF value.t # "ref"
    THEN Scalar(resolveProviders(value, r.st), r)
    ELSE IF r.resolved[value.v] # 0
           THEN [ret |-> New(r.resolved[value.v]), r |-> r]
           ELSE IF value.v \in r.seen
                  THEN [ret |-> value, r |-> r]
                  ELSE IF g[value.v].kind \in OpaqueKinds
                         THEN PassThrough(g, value.v, r)
                         ELSE Completed(value.v, Len(r.out) + 1,
                                resolveItems(g, value.v, Len(r.out) + 1, 1,
                                  [r EXCEPT !.seen = @ \cup {value.v},
                                            !.resolved[value.v] = Len(r.out) + 1,
                                            !.out = Append(@, [kind |-> g[value.v].kind,
                                                               items |-> << >>])]))

\* resolveProviders(value) on the value last.x, an object of the graph in
\* last.heap or a value of its own, with a fresh seen and a fresh resolved;
\* last.before is the graph before the call, last.heap the graph after it,
\* last.prev what the call before this one did, if there was one
Resolved ==
  /\ \E res \in {resolveProvidersIn(last.heap, last.x,
                     [seen |-> {}, resolved |-> [n \in 1..MaxNodes |-> 0],
                      out |-> << >>, st |-> Now, heap |-> last.heap])} :
        /\ last' = [last EXCEPT !.op = "resolve", !.ret = res.ret,
                                !.out = res.r.out, !.resolved = res.r.resolved,
                                !.invoked = res.r.st.invoked,
                                !.passed = res.r.st.passed,
                                !.before = last.heap, !.heap = res.r.heap,
                                !.prev = IF last.op = "resolve"
                                           THEN [ret |-> last.ret, out |-> last.out,
                                                 invoked |-> last.invoked]
                                           ELSE << >>]
        /\ instance' = res.r.st.inst
        /\ objCount' = res.r.st.objs
        /\ firstRet' = res.r.st.first
  /\ UNCHANGED << overriding, wireVars, tokenVars, delegates, staticVars, snapshots, recursionVars >>

\* the first resolveProviders call on a value
Resolve == last.op = "input" /\ Resolved

\* the same value is resolved once more, as the next provide() of the
\* Factory that injects it does
ResolveAgain == last.op = "resolve" /\ last.prev = << >> /\ Resolved

\* ------------------------------------------------------------------------
\* Tokens
\*   t = [normal, asValue, symbols, issued]: the two registries, the number
\*   of symbols created and the history of the tokens returned; token is
\*   the symbol the last lookup returned
\* ------------------------------------------------------------------------
Tokens == [normal |-> containerProviderTokens,
           asValue |-> containerProviderAsValueTokens,
           symbols |-> symbolCount, issued |-> issued, token |-> 0]

Issue(cls, key, asProvider, token) ==
  [cls |-> cls, key |-> key, asProvider |-> asProvider, token |-> token]

\* variant: the provider-identity tokens are kept in the registry of the
\* normal tokens
getProviderTokenForIn_SharedRegistry(t, cls, key) ==
  IF t.normal[cls][key] # 0
    THEN [t EXCEPT !.token = t.normal[cls][key],
                   !.issued = @ \cup {Issue(cls, key, TRUE, t.normal[cls][key])}]
    ELSE [t EXCEPT !.normal[cls][key] = t.symbols + 1,
                   !.symbols = @ + 1,
                   !.token = t.symbols + 1,
                   !.issued = @ \cup {Issue(cls, key, TRUE, t.symbols + 1)}]

\* inject.ts getProviderTokenFor(containerCtor, key) on the registries t
getProviderTokenForIn(t, cls, key) ==
  IF t.asValue[cls][key] # 0
    THEN [t EXCEPT !.token = t.asValue[cls][key],
                   !.issued = @ \cup {Issue(cls, key, TRUE, t.asValue[cls][key])}]
    ELSE [t EXCEPT !.asValue[cls][key] = t.symbols + 1,
                   !.symbols = @ + 1,
                   !.token = t.symbols + 1,
                   !.issued = @ \cup {Issue(cls, key, TRUE, t.symbols + 1)}]

\* inject.ts getTokenFor(containerCtor, key) on the registries t:
\* Symbol(...) creates a symbol different from every other one
getTokenForIn(t, cls, key) ==
  IF t.normal[cls][key] # 0
    THEN [t EXCEPT !.token = t.normal[cls][key],
                   !.issued = @ \cup {Issue(cls, key, FALSE, t.normal[cls][key])}]
    ELSE [t EXCEPT !.normal[cls][key] = t.symbols + 1,
                   !.symbols = @ + 1,
                   !.token = t.symbols + 1,
                   !.issued = @ \cup {Issue(cls, key, FALSE, t.symbols + 1)}]

\* both tokens of the keys ks[i..n] of a container class, in key order
RECURSIVE tokensOfKeys(_, _, _, _, _)
tokensOfKeys(t, cls, ks, i, n) ==
  IF i > n
    THEN t
    ELSE tokensOfKeys(getProviderTokenForIn(getTokenForIn(t, cls, ks[i]), cls, ks[i]),
                      cls, ks, i + 1, n)

\* the registries and the history become those of t
TokensBecome(t) ==
  /\ containerProviderTokens' = t.normal
  /\ containerProviderAsValueTokens' = t.asValue
  /\ symbolCount' = t.symbols
  /\ issued' = t.issued

\* getMarkerFor(containerCtor, key)
GetMarkerFor(cls, key) ==
  \E t \in {getTokenForIn(Tokens, cls, key)} :
     /\ TokensBecome(t)
     /\ last' = [NoOp EXCEPT !.op = "getMarkerFor", !.args = << cls, key >>,
                             !.ret = Num(t.token)]
     /\ UNCHANGED << overriding, instance, objCount, firstRet, wireVars, delegates, staticVars, snapshots, recursionVars >>

\* createInject({ containerClass }): both tokens of every key of a fresh
\* instance that holds a provider
CreateInject(cls) ==
  \E t \in {tokensOfKeys(Tokens, cls, ProviderKeys[cls], 1, Len(ProviderKeys[cls]))} :
     /\ TokensBecome(t)
     /\ last' = [NoOp EXCEPT !.op = "createInject", !.args = << cls >>]
     /\ UNCHANGED << overriding, instance, objCount, firstRet, wireVars, delegates, staticVars, snapshots, recursionVars >>

\* findProviderByToken on a container of the class, as the wrappers that
\* wire() installed call it: both tokens of the own keys, up to the key n
\* at which the loop returns
FindProviderByToken(cls, n) ==
  \E t \in {tokensOfKeys(Tokens, cls, OwnKeys, 1, n)} :
     /\ TokensBecome(t)
     /\ last' = [NoOp EXCEPT !.op = "findProviderByToken", !.args = << cls, n >>]
     /\ UNCHANGED << overriding, instance, objCount, firstRet, wireVars, delegates, staticVars, snapshots, recursionVars >>

\* ------------------------------------------------------------------------
\* Container operations
\* ------------------------------------------------------------------------
\* val instanceof BaseProvider, val instanceof Singleton
InstanceofBaseProvider(val) == val.t = "prov" /\ val.v \in BaseIds
InstanceofSingleton(val) == val.t = "prov" /\ val.v \in SingletonIds

\* the providers of the own properties of container c, in key order, that
\* the loop of resetProviderOverrides / resetSingletonInstances acts on
OwnBaseProviders(c) ==
  SelectSeq([k \in DOMAIN AppKeys |-> Apps[c][AppKeys[k]]], InstanceofBaseProvider)
OwnSingletons(c) ==
  SelectSeq([k \in DOMAIN AppKeys |-> Apps[c][AppKeys[k]]], InstanceofSingleton)

\* variant: resetProviderOverrides also clears the Singleton caches
ResetProviderOverrides_AndCaches(c) ==
  /\ overriding' = [p \in BaseIds |->
                      IF Prov(p) \in SeqRange(OwnBaseProviders(c)) THEN << >>
                      ELSE overriding[p]]
  /\ instance' = [p \in SingletonIds |->
                    IF Prov(p) \in SeqRange(OwnSingletons(c)) THEN Null ELSE instance[p]]
  /\ last' = [NoOp EXCEPT !.op = "resetProviderOverrides", !.p = c,
                          !.rets = [k \in DOMAIN OwnBaseProviders(c) |->
                                      Len(overriding[OwnBaseProviders(c)[k].v])]]
  /\ UNCHANGED << objCount, firstRet, wireVars, tokenVars, delegates, staticVars, snapshots, recursionVars >>

\* DeclarativeContainer.resetProviderOverrides(); last.rets records the
\* length each stack had
ResetProviderOverrides(c) ==
  /\ overriding' = [p \in BaseIds |->
                      IF Prov(p) \in SeqRange(OwnBaseProviders(c)) THEN << >>
                      ELSE overriding[p]]
  /\ last' = [NoOp EXCEPT !.op = "resetProviderOverrides", !.p = c,
                          !.rets = [k \in DOMAIN OwnBaseProviders(c) |->
                                      Len(overriding[OwnBaseProviders(c)[k].v])]]
  /\ UNCHANGED << instance, objCount, firstRet, wireVars, tokenVars, delegates, staticVars, snapshots, recursionVars >>

\* variant: resetSingletonInstances also empties the caches of the
\* Singletons that stand on the override stacks of the own providers
ResetSingletonInstances_AndOverrides(c) ==
  /\ instance' = [p \in SingletonIds |->
                    IF \/ Prov(p) \in SeqRange(OwnSingletons(c))
                       \/ \E k \in DOMAIN OwnBaseProviders(c) :
                             Prov(p) \in SeqRange(overriding[OwnBaseProviders(c)[k].v])
                      THEN Null ELSE instance[p]]
  /\ firstRet' = [p \in SingletonIds |->
                    IF Prov(p) \in SeqRange(OwnSingletons(c)) THEN NoVal ELSE firstRet[p]]
  /\ last' = [NoOp EXCEPT !.op = "resetSingletonInstances", !.p = c,
                          !.rets = [k \in DOMAIN OwnSingletons(c) |->
                                      instance[OwnSingletons(c)[k].v]]]
  /\ UNCHANGED << overriding, objCount, wireVars, tokenVars, delegates, staticVars, snapshots, recursionVars >>

\* variant: resetSingletonInstances leaves the caches alone
ResetSingletonInstances_Keeps(c) ==
  /\ last' = [NoOp EXCEPT !.op = "resetSingletonInstances", !.p = c,
                          !.rets = [k \in DOMAIN OwnSingletons(c) |->
                                      instance[OwnSingletons(c)[k].v]]]
  /\ UNCHANGED << overriding, instance, objCount, firstRet, wireVars, tokenVars, delegates, staticVars, snapshots, recursionVars >>

\* DeclarativeContainer.resetSingletonInstances(); last.rets records the
\* value each cache held
ResetSingletonInstances(c) ==
  /\ instance' = [p \in SingletonIds |->
                    IF Prov(p) \in SeqRange(OwnSingletons(c)) THEN Null ELSE instance[p]]
  /\ firstRet' = [p \in SingletonIds |->
                    IF Prov(p) \in SeqRange(OwnSingletons(c)) THEN NoVal ELSE firstRet[p]]
  /\ last' = [NoOp EXCEPT !.op = "resetSingletonInstances", !.p = c,
                          !.rets = [k \in DOMAIN OwnSingletons(c) |->
                                      instance[OwnSingletons(c)[k].v]]]
  /\ UNCHANGED << overriding, objCount, wireVars, tokenVars, delegates, staticVars, snapshots, recursionVars >>

\* variant: initDeclarativeContainer defines the accessor whether or not the
\* class has a member under the key
initDeclarativeContainer_Overwrites ==
  /\ constructed < Len(Apps)
  /\ constructed' = constructed + 1
  /\ internals' = Append(internals, constructed + 1)
  /\ statics' = [key \in SeqRange(AppKeys) |->
                   IF isProvider(Apps[constructed + 1][key])
                     THEN Getter(constructed + 1)
                     ELSE statics[key]]
  /\ last' = [NoOp EXCEPT !.op = "initDeclarativeContainer", !.p = constructed + 1]
  /\ UNCHANGED << overriding, instance, objCount, firstRet, wireVars, tokenVars,
                  delegates, snapshots, recursionVars >>

\* initDeclarativeContainer(App): new ctor() is the next instance of the
\* class; every own key of it that holds a provider and is not in ctor gets
\* the accessor of that instance
initDeclarativeContainer ==
  /\ constructed < Len(Apps)
  /\ constructed' = constructed + 1
  /\ internals' = Append(internals, constructed + 1)
  /\ statics' = [key \in SeqRange(AppKeys) |->
                   IF isProvider(Apps[constructed + 1][key])
                        /\ statics[key].kind = "absent"
                     THEN Getter(constructed + 1)
                     ELSE statics[key]]
  /\ last' = [NoOp EXCEPT !.op = "initDeclarativeContainer", !.p = constructed + 1]
  /\ UNCHANGED << overriding, instance, objCount, firstRet, wireVars, tokenVars,
                  delegates, snapshots, recursionVars >>

\* new App(), by the application
NewContainer ==
  /\ constructed < Len(Apps)
  /\ constructed' = constructed + 1
  /\ last' = [NoOp EXCEPT !.op = "new", !.p = constructed + 1]
  /\ UNCHANGED << overriding, instance, objCount, firstRet, wireVars, tokenVars,
                  delegates, statics, internals, snapshots, recursionVars >>

\* the value of the expression App[key]: the accessor reads the property of
\* its instance, a data property yields its value, no member yields undefined
StaticValue(key) ==
  IF statics[key].kind = "getter" THEN Apps[statics[key].inst][key]
  ELSE IF statics[key].kind = "data" THEN statics[key].v
  ELSE Undef

\* the application reads App[AppKeys[n]]
StaticGet(n) ==
  /\ last' = [NoOp EXCEPT !.op = "static", !.p = n, !.ret = StaticValue(AppKeys[n])]
  /\ UNCHANGED << overriding, instance, objCount, firstRet, wireVars, tokenVars,
                  delegates, staticVars, snapshots, recursionVars >>

\* the instances the application constructed itself
OwnInstances == (1..constructed) \ SeqRange(internals)

\* ------------------------------------------------------------------------
\* The wiring engine of createInject
\* ------------------------------------------------------------------------
NoCall == [op |-> "none", m |-> "none", args |-> << >>, fwd |-> << >>,
           thisSeen |-> "none", origCalls |-> 0, ret |-> Undef,
           used |-> << >>, subst |-> << >>, invoked |-> << >>, pre |-> << >>]

\* inject.ts isProviderLike
isProviderLike(value) == value.t = "prov" /\ value.v \in BaseIds

\* findProviderByToken, scanning the own keys from position i; the result
\* is the provider to call: the property itself, or a fresh Delegate of it
RECURSIVE findFrom(_, _, _)
findFrom(c, token, i) ==
  IF i > Len(Keys)
    THEN [found |-> FALSE, delegate |-> FALSE, p |-> 0]
    ELSE LET key == Keys[i]
             provider == Containers[c][key]
         IN IF getTokenFor(key) = token
              THEN IF isProviderLike(provider)
                     THEN [found |-> TRUE, delegate |-> FALSE, p |-> provider.v]
                     ELSE findFrom(c, token, i + 1)
              ELSE IF getProviderTokenFor(key) = token
                     THEN IF isProviderLike(provider)
                            THEN [found |-> TRUE, delegate |-> TRUE, p |-> provider.v]
                            ELSE findFrom(c, token, i + 1)
                     ELSE findFrom(c, token, i + 1)

\* variant: a token the container cannot resolve is looked up in the
\* other wired containers
findProviderByToken_Fallback(c, token) ==
  LET others == {d \in ContIds :
                   /\ \E api \in APIs : \E k \in DOMAIN wiredContainers[api] :
                          wiredContainers[api][k] = d
                   /\ findFrom(d, token, 1).found}
  IN IF findFrom(c, token, 1).found \/ others = {}
       THEN findFrom(c, token, 1)
       ELSE findFrom(CHOOSE d \in others : TRUE, token, 1)

findProviderByToken(c, token) == findFrom(c, token, 1)

\* variant: the marker of the provider itself yields the resolved value
provideFound_Resolves(f, st) == provide(f.p, << >>, st)

\* variant: the wrapper injects the value a Singleton has cached without
\* asking the provider
provideFound_Cached(f, st) ==
  IF f.delegate
    THEN [ret |-> Prov(f.p), st |-> st]
    ELSE IF Providers[f.p].kind = "Singleton" /\ st.inst[f.p] # Null
           THEN [ret |-> st.inst[f.p], st |-> st]
           ELSE provide(f.p, << >>, st)

\* provider.provide() of what findProviderByToken returned: a fresh
\* Delegate has an empty override stack and returns the provider it wraps
provideFound(f, st) ==
  IF f.delegate
    THEN [ret |-> Prov(f.p), st |-> st]
    ELSE provide(f.p, << >>, st)

\* the Map tokensByIndex built from a list of sites: one entry per parameter
\* index, in order of first insertion, holding the token set last
RECURSIVE tokensByIndex(_)
tokensByIndex(ss) ==
  IF ss = << >>
    THEN << >>
    ELSE LET front == tokensByIndex(SubSeq(ss, 1, Len(ss) - 1))
             site == ss[Len(ss)]
             at == {k \in DOMAIN front : front[k].paramIndex = site.paramIndex}
         IN IF at = {}
              THEN Append(front, [paramIndex |-> site.paramIndex, token |-> site.token])
              ELSE [k \in DOMAIN front |->
                      IF k \in at THEN [front[k] EXCEPT !.token = site.token]
                                  ELSE front[k]]

\* newArgs[paramIndex] = value on a JavaScript array (0-based index):
\* assigning past the end leaves holes that read as undefined
SetArg(args, paramIndex, value) ==
  IF paramIndex < Len(args)
    THEN [args EXCEPT ![paramIndex + 1] = value]
    ELSE [k \in 1..(paramIndex + 1) |->
            IF k <= Len(args) THEN args[k]
            ELSE IF k = paramIndex + 1 THEN value ELSE Undef]

\* variant: the loop with the missing-argument test written == null
RECURSIVE injectLoop_Nullish(_, _, _, _)
injectLoop_Nullish(entries, i, activeContainer, r) ==
  IF i > Len(entries)
    THEN r
    ELSE LET e == entries[i]
             missing == \/ e.paramIndex >= Len(r.args)
                        \/ r.args[e.paramIndex + 1] \in {Undef, Null}
             f == findProviderByToken(activeContainer, e.token)
         IN IF missing /\ f.found
              THEN LET v == provideFound(f, r.st)
                   IN injectLoop_Nullish(entries, i + 1, activeContainer,
                         [args |-> SetArg(r.args, e.paramIndex, v.ret),
                          st |-> v.st,
                          subst |-> Append(r.subst,
                                      [paramIndex |-> e.paramIndex, token |-> e.token,
                                       container |-> activeContainer, value |-> v.ret])])
              ELSE injectLoop_Nullish(entries, i + 1, activeContainer, r)

\* the injection loop of the wrapper and of the construct trap over the
\* entries of tokensByIndex, from entry i; r = [args, st, subst], subst the
\* substitutions made so far
RECURSIVE injectLoop(_, _, _, _)
injectLoop(entries, i, activeContainer, r) ==
  IF i > Len(entries)
    THEN r
    ELSE LET e == entries[i]
             missing == e.paramIndex >= Len(r.args) \/ r.args[e.paramIndex + 1] = Undef
             f == findProviderByToken(activeContainer, e.token)
         IN IF missing /\ f.found
              THEN LET v == provideFound(f, r.st)
                   IN injectLoop(entries, i + 1, activeContainer,
                         [args |-> SetArg(r.args, e.paramIndex, v.ret),
                          st |-> v.st,
                          subst |-> Append(r.subst,
                                      [paramIndex |-> e.paramIndex, token |-> e.token,
                                       container |-> activeContainer, value |-> v.ret])])
              ELSE injectLoop(entries, i + 1, activeContainer, r)

\* the substitution of one wrapper or construct trap: nothing without an
\* active container
injectArgs(entries, activeContainer, args, st) ==
  LET start == [args |-> args, st |-> st, subst |-> << >>]
  IN IF activeContainer # 0
       THEN injectLoop(entries, 1, activeContainer, start)
       ELSE start

\* variant: the container wired last wins
firstWired_Lifo(api) ==
  IF wiredContainers[api] = << >>
    THEN 0 ELSE wiredContainers[api][Len(wiredContainers[api])]

\* wiredContainers.values().next().value of one createInject call; 0 stands
\* for undefined
firstWired(api) ==
  IF wiredContainers[api] = << >> THEN 0 ELSE wiredContainers[api][1]

\* the original method: method(x, y) { return x }
originalFn(self, args) ==
  [fwd |-> args, thisSeen |-> self, origCalls |-> 1, ret |-> NthArg(args, 1)]

\* the wrapper of wire(): calling the function made of the n innermost
\* wrappers of a method with receiver self ends in originalFn.apply(this, newArgs)
RECURSIVE wrapper(_, _, _, _, _)
wrapper(layers, n, self, args, st) ==
  IF n = 0
    THEN LET o == originalFn(self, args)
         IN [fwd |-> o.fwd, thisSeen |-> o.thisSeen, origCalls |-> o.origCalls,
             ret |-> o.ret, st |-> st, used |-> << >>, subst |-> << >>]
    ELSE LET layer == layers[n]
             activeContainer == firstWired(layer.api)
             r == injectArgs(tokensByIndex(layer.sitesForKey),
                             activeContainer, args, st)
             inner == wrapper(layers, n - 1, self, r.args, r.st)
         IN [inner EXCEPT
               !.used = << [api |-> layer.api, container |-> activeContainer] >> \o @,
               !.subst = r.subst \o @]

\* the sites recorded for one method, in recording order
RECURSIVE sitesOf(_, _)
sitesOf(ss, m) ==
  IF ss = << >>
    THEN << >>
    ELSE LET front == sitesOf(SubSeq(ss, 1, Len(ss) - 1), m)
         IN IF ss[Len(ss)].m = m THEN Append(front, ss[Len(ss)]) ELSE front

Without(q, c) == SelectSeq(q, LAMBDA d : d # c)

\* a marker applied to a parameter of a method: the decorator records the
\* site (the introspection table PARAM_INJECT_IDS, which wiring never reads,
\* is not part of the state)
Decorate(u) ==
  /\ Len(sites) + Len(ctorSites) < MaxSites
  /\ sites' = Append(sites, u)
  /\ lastCall' = NoCall
  /\ UNCHANGED << provVars, tokenVars, delegates, staticVars, snapshots, recursionVars, ctorSites, injectable, wiredContainers,
                  wrappedMethods, method, wiredSet, wiredBefore >>

\* a marker applied to a constructor parameter (propertyKey undefined, the
\* target a function): the decorator records a constructor site
DecorateCtor(u) ==
  /\ Len(sites) + Len(ctorSites) < MaxSites
  /\ ctorSites' = Append(ctorSites, u)
  /\ lastCall' = NoCall
  /\ UNCHANGED << provVars, tokenVars, delegates, staticVars, snapshots, recursionVars, sites, injectable, wiredContainers,
                  wrappedMethods, method, wiredSet, wiredBefore >>

\* variant: Injectable wraps the class in a Proxy whether or not a
\* constructor site is recorded for it
Injectable_AlwaysProxy(api) ==
  LET target == IF injectable = << >> THEN "K" ELSE "proxy of K"
      sitesForConstructor == SelectSeq(ctorSites, LAMBDA site : site.constructor = target)
  IN /\ injectable' =
          << [api |-> api, tokensByIndex |-> tokensByIndex(sitesForConstructor)] >>
     /\ lastCall' = [NoCall EXCEPT !.op = "Injectable", !.m = target]
     /\ UNCHANGED << provVars, tokenVars, delegates, staticVars, snapshots, recursionVars, sites, ctorSites, wiredContainers,
                     wrappedMethods, method, wiredSet, wiredBefore >>

\* Injectable(target) of one createInject call, applied as a class decorator
\* to what K is bound to; sites are recorded against the class itself, so a
\* Proxy has none and is returned as it is
Injectable(api) ==
  LET target == IF injectable = << >> THEN "K" ELSE "proxy of K"
      sitesForConstructor == SelectSeq(ctorSites, LAMBDA site : site.constructor = target)
  IN /\ injectable' =
          IF sitesForConstructor = << >>
            THEN injectable
            ELSE << [api |-> api, tokensByIndex |-> tokensByIndex(sitesForConstructor)] >>
     /\ lastCall' = [NoCall EXCEPT !.op = "Injectable", !.m = target]
     /\ UNCHANGED << provVars, tokenVars, delegates, staticVars, snapshots, recursionVars, sites, ctorSites, wiredContainers,
                     wrappedMethods, method, wiredSet, wiredBefore >>

\* variant: wire() of a wired container moves it to the end of the set
wire_MovesToEnd(api, c) ==
  LET toWrap == {m \in Methods : sitesOf(sites, m) # << >> /\ m \notin wrappedMethods[api]}
  IN /\ wiredContainers' =
          [wiredContainers EXCEPT ![api] = Append(Without(@, c), c)]
     /\ method' = [m \in Methods |->
                     IF m \in toWrap
                       THEN Append(method[m],
                                   [api |-> api, sitesForKey |-> sitesOf(sites, m)])
                       ELSE method[m]]
     /\ wrappedMethods' = [wrappedMethods EXCEPT ![api] = @ \cup toWrap]
     /\ wiredBefore' =
          [wiredBefore EXCEPT
             ![api] = IF c \in wiredSet[api]
                        THEN @ ELSE @ \cup {<< d, c >> : d \in wiredSet[api]}]
     /\ wiredSet' = [wiredSet EXCEPT ![api] = @ \cup {c}]
     /\ lastCall' = NoCall
     /\ UNCHANGED << provVars, tokenVars, delegates, staticVars, snapshots, recursionVars, sites, ctorSites, injectable >>

\* wire(container) of one createInject call
wire(api, c) ==
  LET toWrap == {m \in Methods : sitesOf(sites, m) # << >> /\ m \notin wrappedMethods[api]}
  IN /\ wiredContainers' =
          [wiredContainers EXCEPT
             ![api] = IF c \in SeqRange(@) THEN @ ELSE Append(@, c)]
     /\ method' = [m \in Methods |->
                     IF m \in toWrap
                       THEN Append(method[m],
                                   [api |-> api, sitesForKey |-> sitesOf(sites, m)])
                       ELSE method[m]]
     /\ wrappedMethods' = [wrappedMethods EXCEPT ![api] = @ \cup toWrap]
     /\ wiredBefore' =
          [wiredBefore EXCEPT
             ![api] = IF c \in wiredSet[api]
                        THEN @ ELSE @ \cup {<< d, c >> : d \in wiredSet[api]}]
     /\ wiredSet' = [wiredSet EXCEPT ![api] = @ \cup {c}]
     /\ lastCall' = NoCall
     /\ UNCHANGED << provVars, tokenVars, delegates, staticVars, snapshots, recursionVars, sites, ctorSites, injectable >>

\* variant: unwire puts the original functions back
unwire_Restores(api, c) ==
  /\ wiredContainers' = [wiredContainers EXCEPT ![api] = Without(@, c)]
  /\ method' = [m \in Methods |-> << >>]
  /\ wrappedMethods' = [wrappedMethods EXCEPT ![api] = {}]
  /\ wiredBefore' =
       [wiredBefore EXCEPT ![api] = {e \in @ : e[1] # c /\ e[2] # c}]
  /\ wiredSet' = [wiredSet EXCEPT ![api] = @ \ {c}]
  /\ lastCall' = NoCall
  /\ UNCHANGED << provVars, tokenVars, delegates, staticVars, snapshots, recursionVars, sites, ctorSites, injectable >>

\* unwire(container) of one createInject call
unwire(api, c) ==
  /\ wiredContainers' = [wiredContainers EXCEPT ![api] = Without(@, c)]
  /\ wiredBefore' =
       [wiredBefore EXCEPT ![api] = {e \in @ : e[1] # c /\ e[2] # c}]
  /\ wiredSet' = [wiredSet EXCEPT ![api] = @ \ {c}]
  /\ lastCall' = NoCall
  /\ UNCHANGED << provVars, tokenVars, delegates, staticVars, snapshots, recursionVars, sites, ctorSites, injectable, wrappedMethods, method >>

\* the application calls target[propertyKey](...args) on the receiver;
\* lastCall.pre holds the override stacks, the Singleton caches and the number
\* of objects at the time of the call
Call(m, args) ==
  \E r \in {wrapper(method[m], Len(method[m]), Receiver, args, Now)} :
     /\ r.st.objs <= MaxObjs
     /\ instance' = r.st.inst
     /\ objCount' = r.st.objs
     /\ firstRet' = r.st.first
     /\ lastCall' = [op |-> "call", m |-> m, args |-> args, fwd |-> r.fwd,
                     thisSeen |-> r.thisSeen, origCalls |-> r.origCalls,
                     ret |-> r.ret, used |-> r.used, subst |-> r.subst,
                     invoked |-> r.st.invoked,
                     pre |-> << overriding, instance, objCount >>]
     /\ UNCHANGED << overriding, last, tokenVars, delegates, staticVars, snapshots, recursionVars, sites, ctorSites, injectable,
                     wiredContainers, wrappedMethods, method, wiredSet, wiredBefore >>

\* the constructor of K: it keeps its arguments
newTarget(args) ==
  [fwd |-> args, thisSeen |-> "new", origCalls |-> 1, ret |-> [t |-> "instance", v |-> 0]]

\* new K(...args) through what K is bound to: the construct trap of the
\* Proxy, then new Target(...newArgs)
construct(args, st) ==
  IF injectable = << >>
    THEN LET o == newTarget(args)
         IN [fwd |-> o.fwd, thisSeen |-> o.thisSeen, origCalls |-> o.origCalls,
             ret |-> o.ret, st |-> st, used |-> << >>, subst |-> << >>]
    ELSE LET proxy == injectable[1]
             activeContainer == firstWired(proxy.api)
             r == injectArgs(proxy.tokensByIndex, activeContainer, args, st)
             o == newTarget(r.args)
         IN [fwd |-> o.fwd, thisSeen |-> o.thisSeen, origCalls |-> o.origCalls,
             ret |-> o.ret, st |-> r.st,
             used |-> << [api |-> proxy.api, container |-> activeContainer] >>,
             subst |-> r.subst]

\* the application evaluates new K(...args)
Construct(args) ==
  \E r \in {construct(args, Now)} :
     /\ r.st.objs <= MaxObjs
     /\ instance' = r.st.inst
     /\ objCount' = r.st.objs
     /\ firstRet' = r.st.first
     /\ lastCall' = [op |-> "new", m |-> "K", args |-> args, fwd |-> r.fwd,
                     thisSeen |-> r.thisSeen, origCalls |-> r.origCalls,
                     ret |-> r.ret, used |-> r.used, subst |-> r.subst,
                     invoked |-> r.st.invoked,
                     pre |-> << overriding, instance, objCount >>]
     /\ UNCHANGED << overriding, last, tokenVars, delegates, staticVars, snapshots, recursionVars, sites, ctorSites, injectable,
                     wiredContainers, wrappedMethods, method, wiredSet, wiredBefore >>

\* ------------------------------------------------------------------------
\* provide() as call-stack recursion
\*   a net is one configuration of the providers 1..MaxChain: per provider
\*   its class, the provider that the array it injects holds (0: it injects
\*   nothing; the array is filled after the providers were constructed, so
\*   it can hold any of them), the provider on top of its override stack
\*   (0: not overridden); undef is the provider whose target returns
\*   undefined (0: none, every other target is a class); wrapped tells
\*   whether every injected array also holds itself, a cyclic value graph.
\*   A frame is [p, m, pc]: the provider, the class whose provide() runs and
\*   the position in it.
\* ------------------------------------------------------------------------
MaxChain == 2
Chain == 1..MaxChain
\* the number of frames the call stack holds; the engine raises a
\* RangeError when one more is needed
StackLimit == 2 * MaxChain + 2
Nets ==
  { n \in [kind : [Chain -> {"Factory", "Singleton"}],
           arg : [Chain -> 0..MaxChain],
           over : [Chain -> 0..MaxChain],
           undef : {0, MaxChain},
           wrapped : BOOLEAN] :
      \A p \in Chain \ {1} : n.over[p] = 0 }
NoNet == [kind |-> [p \in Chain |-> "Factory"], arg |-> [p \in Chain |-> 0],
          over |-> [p \in Chain |-> 0], undef |-> 0, wrapped |-> FALSE]
NotAsked == [status |-> "idle", root |-> 0, ret |-> "none"]

\* the frame of q.provide() at its first statement
Enter(q) == [p |-> q, m |-> net.kind[q], pc |-> "delegate"]
\* what the target of p returns
Made(p) == IF net.undef = p THEN "undef" ELSE "obj"

\* a call from the top frame, which continues at back when the call
\* returns; a full stack makes the engine throw, and nothing catches it
CallProvide(fr, back) ==
  IF Len(frames) >= StackLimit
    THEN /\ frames' = << >>
         /\ run' = [run EXCEPT !.status = "overflow"]
    ELSE /\ frames' = Append([frames EXCEPT ![Len(frames)].pc = back], fr)
         /\ UNCHANGED run

\* return v from the top frame; the last frame returns to the application
Return(v) ==
  /\ frames' = SubSeq(frames, 1, Len(frames) - 1)
  /\ run' = [run EXCEPT !.ret = v,
                        !.status = IF Len(frames) = 1 THEN "returned" ELSE @]

\* the top frame moves on
Goto(pc) ==
  /\ frames' = [frames EXCEPT ![Len(frames)].pc = pc]
  /\ UNCHANGED run

Init ==
  /\ overriding = [p \in BaseIds |-> << >>]
  /\ instance = [p \in SingletonIds |-> Null]
  /\ objCount = 0
  /\ last = NoOp
  /\ firstRet = [p \in SingletonIds |-> NoVal]
  /\ sites = << >>
  /\ ctorSites = << >>
  /\ injectable = << >>
  /\ wiredContainers = [api \in APIs |-> << >>]
  /\ wrappedMethods = [api \in APIs |-> {}]
  /\ method = [m \in Methods |-> << >>]
  /\ lastCall = NoCall
  /\ wiredSet = [api \in APIs |-> {}]
  /\ wiredBefore = [api \in APIs |-> {}]
  /\ containerProviderTokens = NoTokens
  /\ containerProviderAsValueTokens = NoTokens
  /\ symbolCount = 0
  /\ issued = {}
  /\ delegates = << >>
  /\ statics = ClassStatics
  /\ constructed = 0
  /\ internals = << >>
  /\ snapshots = << >>
  /\ net = NoNet
  /\ frames = << >>
  /\ run = NotAsked
  /\ cached = [p \in Chain |-> "null"]

\* a value graph is about to be resolved
InitResolve ==
  /\ overriding = [p \in BaseIds |-> << >>]
  /\ instance = [p \in SingletonIds |-> Null]
  /\ objCount = 0
  /\ \/ \E g \in Graphs :
          last = [NoOp EXCEPT !.op = "input", !.heap = g, !.x = Ref(1)]
     \/ \E g \in TypedGraphs, n \in 1..2 :
          last = [NoOp EXCEPT !.op = "input", !.heap = g, !.x = Ref(n)]
     \/ \E x \in TopLevelValues :
          last = [NoOp EXCEPT !.op = "input", !.heap = NoGraph, !.x = x]
  /\ firstRet = [p \in SingletonIds |-> NoVal]
  /\ sites = << >>
  /\ ctorSites = << >>
  /\ injectable = << >>
  /\ wiredContainers = [api \in APIs |-> << >>]
  /\ wrappedMethods = [api \in APIs |-> {}]
  /\ method = [m \in Methods |-> << >>]
  /\ lastCall = NoCall
  /\ wiredSet = [api \in APIs |-> {}]
  /\ wiredBefore = [api \in APIs |-> {}]
  /\ containerProviderTokens = NoTokens
  /\ containerProviderAsValueTokens = NoTokens
  /\ symbolCount = 0
  /\ issued = {}
  /\ delegates = << >>
  /\ statics = ClassStatics
  /\ constructed = 0
  /\ internals = << >>
  /\ snapshots = << >>
  /\ net = NoNet
  /\ frames = << >>
  /\ run = NotAsked
  /\ cached = [p \in Chain |-> "null"]

NextResolve == Resolve

\* an injected value of two objects of every kind, before it is resolved
InitRepeat ==
  /\ overriding = [p \in BaseIds |-> << >>]
  /\ instance = [p \in SingletonIds |-> Null]
  /\ objCount = 0
  /\ \E g \in TypedGraphs, n \in 1..2 :
        last = [NoOp EXCEPT !.op = "input", !.heap = g, !.x = Ref(n)]
  /\ firstRet = [p \in SingletonIds |-> NoVal]
  /\ sites = << >>
  /\ ctorSites = << >>
  /\ injectable = << >>
  /\ wiredContainers = [api \in APIs |-> << >>]
  /\ wrappedMethods = [api \in APIs |-> {}]
  /\ method = [m \in Methods |-> << >>]
  /\ lastCall = NoCall
  /\ wiredSet = [api \in APIs |-> {}]
  /\ wiredBefore = [api \in APIs |-> {}]
  /\ containerProviderTokens = NoTokens
  /\ containerProviderAsValueTokens = NoTokens
  /\ symbolCount = 0
  /\ issued = {}
  /\ delegates = << >>
  /\ statics = ClassStatics
  /\ constructed = 0
  /\ internals = << >>
  /\ snapshots = << >>
  /\ net = NoNet
  /\ frames = << >>
  /\ run = NotAsked
  /\ cached = [p \in Chain |-> "null"]

\* provide() called twice on a Factory that injects the value
NextRepeat ==
  \/ Resolve
  \/ ResolveAgain

SpecRepeat == InitRepeat /\ [][NextRepeat]_vars

SpecResolve == InitResolve /\ [][NextResolve]_vars

\* the provider accessor in use, on providers that are overridden and reset
NextDelegate ==
  \/ \E p \in Overridable, x \in AppOverrideArgs : Override(p, x)
  \/ \E p \in Overridable : ResetLastOverriding(p)
  \/ \E p \in Overridable : ResetOverride(p)
  \/ \E p \in Overridable : ProviderAccessor(p)
  \/ \E d \in 1..MaxDelegates : DelegateProvideCall(d)
  \/ \E p \in Overridable : ProvideCall(p, << >>)

SpecDelegate == Init /\ [][NextDelegate]_vars

\* the class App after initDeclarativeContainer: its providers reached
\* through the static members and through instances the application
\* constructs
NextStatic ==
  \/ initDeclarativeContainer
  \/ NewContainer
  \/ \E n \in DOMAIN AppKeys : StaticGet(n)
  \/ \E key \in {"db", "api"} :
        /\ isProviderLike(StaticValue(key))
        /\ ProvideCall(StaticValue(key).v, << >>)
  \/ \E x \in AppOverrideArgs :
        /\ isProviderLike(StaticValue("db"))
        /\ Override(StaticValue("db").v, x)
  \/ /\ isProviderLike(StaticValue("db"))
     /\ ResetOverride(StaticValue("db").v)
  \/ /\ isProviderLike(StaticValue("db"))
     /\ ResetInstance(StaticValue("db").v)
  \/ \E c \in OwnInstances, key \in {"db", "api"} :
        ProvideCall(Apps[c][key].v, << >>)
  \/ \E c \in OwnInstances, x \in AppOverrideArgs : Override(Apps[c].db.v, x)
  \/ \E c \in OwnInstances : ResetInstance(Apps[c].db.v)
  \/ \E c \in OwnInstances : ResetProviderOverrides(c)

SpecStatic == Init /\ [][NextStatic]_vars

\* the override stack observed through isOverridden() and the overrides
\* accessor
NextSnapshot ==
  \/ \E p \in Overridable, x \in AppOverrideArgs : Override(p, x)
  \/ \E p \in Overridable : ResetLastOverriding(p)
  \/ \E p \in Overridable : ResetOverride(p)
  \/ \E p \in Overridable : IsOverriddenCall(p)
  \/ \E p \in Overridable : OverridesGetter(p)
  \/ \E m \in Mutations : MutateSnapshot(1, m, Prov(5))
  \/ \E p \in Overridable : ProvideCall(p, << >>)

SpecSnapshot == Init /\ [][NextSnapshot]_vars

\* tokens being asked for
NextTokens ==
  \/ \E cls \in ContainerClasses, key \in SeqRange(OwnKeys) : GetMarkerFor(cls, key)
  \/ \E cls \in ContainerClasses : CreateInject(cls)
  \/ \E cls \in ContainerClasses, n \in DOMAIN OwnKeys : FindProviderByToken(cls, n)

SpecTokens == Init /\ [][NextTokens]_vars

Next ==
  \/ \E p \in Overridable, x \in OverrideArgs : Override(p, x)
  \/ \E p \in Overridable : ResetLastOverriding(p)
  \/ \E p \in Overridable : ResetOverride(p)
  \/ \E p \in Provided, args \in ProvideArgs : ProvideCall(p, args)
  \/ \E p \in Standalone \cap SingletonIds : ResetInstance(p)

Spec == Init /\ [][Next]_vars

\* the override stacks of two providers in use, with every kind of argument
\* to override(), and provide() on the Singleton among them and on the
\* Delegate that wraps it
NextStack ==
  \/ \E p \in Overridable, x \in OverrideArgs : Override(p, x)
  \/ \E p \in Overridable : ResetLastOverriding(p)
  \/ \E p \in Overridable : ResetOverride(p)
  \/ \E p \in {2, 9}, args \in ProvideArgs : ProvideCall(p, args)

SpecStack == Init /\ [][NextStack]_vars

\* two instances of a container class in use
NextContainer ==
  \/ \E c \in AppIds, key \in {"db", "api", "ref"} :
        ProvideCall(Apps[c][key].v, << >>)
  \/ \E c \in AppIds, key \in {"db", "api"}, x \in AppOverrideArgs :
        Override(Apps[c][key].v, x)
  \/ \E c \in AppIds : ResetInstance(Apps[c].db.v)
  \/ \E c \in AppIds : ResetProviderOverrides(c)
  \/ \E c \in AppIds : ResetSingletonInstances(c)

SpecContainer == Init /\ [][NextContainer]_vars

\* factories with an Extend argument in use
NextExtend ==
  \/ \E p \in ExtendProvided, args \in ExtendArgs : ProvideCall(p, args)
  \/ \E p \in {4, 19} : ResetInstance(p)

SpecExtend == Init /\ [][NextExtend]_vars

\* the state after the providers of a net were constructed and configured
InitRecursion ==
  /\ overriding = [p \in BaseIds |-> << >>]
  /\ instance = [p \in SingletonIds |-> Null]
  /\ objCount = 0
  /\ last = NoOp
  /\ firstRet = [p \in SingletonIds |-> NoVal]
  /\ sites = << >>
  /\ ctorSites = << >>
  /\ injectable = << >>
  /\ wiredContainers = [api \in APIs |-> << >>]
  /\ wrappedMethods = [api \in APIs |-> {}]
  /\ method = [m \in Methods |-> << >>]
  /\ lastCall = NoCall
  /\ wiredSet = [api \in APIs |-> {}]
  /\ wiredBefore = [api \in APIs |-> {}]
  /\ containerProviderTokens = NoTokens
  /\ containerProviderAsValueTokens = NoTokens
  /\ symbolCount = 0
  /\ issued = {}
  /\ delegates = << >>
  /\ statics = ClassStatics
  /\ constructed = 0
  /\ internals = << >>
  /\ snapshots = << >>
  /\ net \in Nets
  /\ frames = << >>
  /\ run = NotAsked
  /\ cached = [p \in Chain |-> "null"]

restVars == << provVars, wireVars, tokenVars, delegates, staticVars, snapshots >>

\* the application calls p.provide()
Ask(p) ==
  /\ run.status # "running"
  /\ frames' = << Enter(p) >>
  /\ run' = [status |-> "running", root |-> p, ret |-> "none"]
  /\ UNCHANGED << net, cached, restVars >>

\* const overridden = this._delegateIfOverridden(...args);
\* if (overridden !== undefined) return overridden;
DelegateIfOverridden ==
  /\ frames # << >>
  /\ \E f \in {frames[Len(frames)]} :
        \/ /\ f.pc = "delegate"
           /\ IF net.over[f.p] # 0
                THEN CallProvide(Enter(net.over[f.p]), "overridden")
                ELSE Goto("own")
        \/ /\ f.pc = "overridden"
           /\ IF run.ret # "undef" THEN Return(run.ret) ELSE Goto("own")
  /\ UNCHANGED << net, cached, restVars >>

\* variant: a Singleton that is asked again while it is being constructed
\* answers undefined
SingletonStep_Guarded ==
  /\ frames # << >>
  /\ \E f \in {frames[Len(frames)]} :
        /\ f.m = "Singleton"
        /\ \/ /\ f.pc = "own"
              /\ IF cached[f.p] # "null"
                   THEN Return(cached[f.p])
                   ELSE IF \E k \in 1..(Len(frames) - 1) :
                             frames[k].p = f.p /\ frames[k].pc = "assign"
                          THEN Return("undef")
                          ELSE CallProvide([p |-> f.p, m |-> "Factory", pc |-> "delegate"],
                                           "assign")
              /\ UNCHANGED cached
           \/ /\ f.pc = "assign"
              /\ cached' = [cached EXCEPT ![f.p] = run.ret]
              /\ Return(run.ret)
  /\ UNCHANGED << net, restVars >>

\* Singleton.provide after the override test:
\* if (this.instance === null) this.instance = super.provide(...args);
\* return this.instance;
SingletonStep ==
  /\ frames # << >>
  /\ \E f \in {frames[Len(frames)]} :
        /\ f.m = "Singleton"
        /\ \/ /\ f.pc = "own"
              /\ IF cached[f.p] # "null"
                   THEN Return(cached[f.p])
                   ELSE CallProvide([p |-> f.p, m |-> "Factory", pc |-> "delegate"],
                                    "assign")
              /\ UNCHANGED cached
           \/ /\ f.pc = "assign"
              /\ cached' = [cached EXCEPT ![f.p] = run.ret]
              /\ Return(run.ret)
  /\ UNCHANGED << net, restVars >>

\* Factory.provide after the override test: resolveProviders on the
\* injected array (its first item is a provider and is asked, an item that
\* is the array itself is answered from the resolved map), then the target
FactoryStep ==
  /\ frames # << >>
  /\ \E f \in {frames[Len(frames)]} :
        /\ f.m = "Factory"
        /\ \/ /\ f.pc = "own"
              /\ IF net.arg[f.p] = 0
                   THEN Goto("target")
                   ELSE CallProvide(Enter(net.arg[f.p]),
                                    IF net.wrapped THEN "memo" ELSE "target")
           \/ /\ f.pc = "memo"
              /\ Goto("target")
           \/ /\ f.pc = "target"
              /\ Return(Made(f.p))
  /\ UNCHANGED << net, cached, restVars >>

NextRecursion ==
  \/ \E p \in Chain : Ask(p)
  \/ DelegateIfOverridden
  \/ SingletonStep
  \/ FactoryStep

SpecRecursion == InitRecursion /\ [][NextRecursion]_vars
\* execution is synchronous: a call in progress takes its next step
FairRecursion ==
  SpecRecursion /\ WF_vars(DelegateIfOverridden \/ SingletonStep \/ FactoryStep)

\* a Singleton that no container owns: it overrides the Singleton db of
\* the containers and is the injected argument of the Factory 1
Foreign == 4
NextForeign ==
  \/ \E c \in AppIds : ProvideCall(Apps[c].db.v, << >>)
  \/ ProvideCall(1, << >>)
  \/ \E c \in AppIds : Override(Apps[c].db.v, Prov(Foreign))
  \/ \E c \in AppIds : ResetSingletonInstances(c)

SpecForeign == Init /\ [][NextForeign]_vars

\* Singletons whose construction can fail in use: 19 fails on a context
\* that is not an object, 21 while its injected Factory 20 throws, 22 always
Failing == {19, 21, 22}
NextFailing ==
  \/ \E p \in Failing, args \in { << >>, << Undef >> } : ProvideCall(p, args)
  \/ \E p \in {20, 22}, x \in AppOverrideArgs : Override(p, x)
  \/ \E p \in {20, 22} : ResetOverride(p)
  \/ \E p \in {19, 21} : ResetInstance(p)

SpecFailing == Init /\ [][NextFailing]_vars

\* the container whose providers the application overrides and resets
\* between calls of a decorated method, and the marker it uses
Reconfigured == 3
InjectUses == {u \in MarkerUses : u.paramIndex = 0 /\ ~u.token.asProvider}
\* a decorated method called while the providers of the wired container are
\* overridden and reset
NextInject ==
  \/ \E u \in InjectUses : Decorate(u)
  \/ wire("A", Reconfigured)
  \/ \E x \in AppOverrideArgs : Override(Containers[Reconfigured].a.v, x)
  \/ ResetOverride(Containers[Reconfigured].a.v)
  \/ ResetInstance(Containers[Reconfigured].a.v)
  \/ \E args \in CallArgs : Call("m1", args)

SpecInject == Init /\ [][NextInject]_vars

\* the wiring engine in use: decorating, wiring, unwiring and calling
NextWire ==
  \/ \E u \in MarkerUses : Decorate(u)
  \/ \E u \in CtorMarkerUses : DecorateCtor(u)
  \/ \E api \in APIs : Injectable(api)
  \/ \E api \in APIs : \E c \in WiredThrough[api] : wire(api, c)
  \/ \E api \in APIs : \E c \in WiredThrough[api] : unwire(api, c)
  \/ \E m \in Methods, args \in CallArgs : Call(m, args)
  \/ \E args \in CallArgs : Construct(args)

SpecWire == Init /\ [][NextWire]_vars

\* ------------------------------------------------------------------------
\* Properties of the tokens
\* ------------------------------------------------------------------------
\* C26: tokens are stable and unique: whatever getMarkerFor, createInject
\* and the lookups of the wrappers were called, two tokens ever returned
\* are the same symbol exactly when they were asked for the same container
\* class, the same key and the same kind (normal or provider-identity); the
\* token getMarkerFor returns is the normal token of the pair.
C26_TokensStableAndUnique ==
  /\ \A e1, e2 \in issued :
        (e1.token = e2.token)
          <=> (e1.cls = e2.cls /\ e1.key = e2.key /\ e1.asProvider = e2.asProvider)
  /\ last.op = "getMarkerFor" =>
        Issue(last.args[1], last.args[2], FALSE, last.ret.v) \in issued

\* C26 witness: the normal token of (Other, a) was created before
\* createInject(App) created the four tokens of App, and getMarkerFor
\* returns it again after
C26_Witness ==
  /\ last.op = "getMarkerFor"
  /\ last.args = << "Other", "a" >>
  /\ last.ret = Num(1)
  /\ symbolCount = 5
  /\ Issue("App", "a", TRUE, 3) \in issued

\* ------------------------------------------------------------------------
\* Properties of the provider hierarchy
\* ------------------------------------------------------------------------
Top(p) == overriding[p][Len(overriding[p])]
IsOverridden(p) == Len(overriding[p]) > 0

\* C1: a Factory or Singleton whose override stack is non-empty returns from
\* provide(...args) exactly what the top override's provide(...args) returns,
\* whatever that value is; its own target is not invoked and, for a
\* Singleton, its cache is not written.
C1_DelegatesToTopOverride ==
  [][\A p \in Overridable, args \in ProvideArgs :
        (ProvideCall(p, args) /\ IsOverridden(p)) =>
          /\ last'.ret = provide(Top(p).v, args, Now).ret
          /\ Count(last'.invoked, p) = 0
          /\ (p \in SingletonIds => instance'[p] = instance[p])]_vars

\* C2: the override stack is LIFO: override pushes on top, provide() behaves
\* as the most recently pushed override not yet removed,
\* resetLastOverriding removes and returns exactly that one, resetOverride
\* returns the remaining overrides in push order and empties the stack, and
\* with an empty stack provide() is the provider's own logic.
C2_OverrideStackLifo ==
  [][\A p \in Overridable :
        /\ \A x \in OverrideArgs :
              (Override(p, x) /\ last'.err = "none") =>
                 overriding'[p] = Append(overriding[p], x)
        /\ (ResetLastOverriding(p) /\ IsOverridden(p)) =>
              /\ last'.ret = Top(p)
              /\ overriding'[p] = SubSeq(overriding[p], 1, Len(overriding[p]) - 1)
        /\ ResetOverride(p) =>
              /\ last'.rets = overriding[p]
              /\ overriding'[p] = << >>
        /\ \A args \in ProvideArgs :
              ProvideCall(p, args) =>
                 IF IsOverridden(p)
                   THEN /\ last'.ret = provide(Top(p).v, args, Now).ret
                        /\ Count(last'.invoked, p) = 0
                   ELSE Count(last'.invoked, p) <= 1]_vars

\* every access to the provider accessor creates a Delegate that did not
\* exist before, and provide() of that Delegate returns the provider the
\* accessor was read from, overridden or not
AccessorYieldsFreshDelegate ==
  /\ last.op = "provider" =>
        /\ last.ret.t = "delegate"
        /\ last.ret.v \in DOMAIN delegates
        /\ last.ret.v > last.objsBefore
        /\ delegates[last.ret.v] = last.p
  /\ last.op = "delegate.provide" => last.ret = Prov(delegates[last.p])

\* C27: each access to the provider accessor returns a new, distinct
\* Delegate whose provide() returns the original provider, also while that
\* provider is overridden; provide() called on the provider so obtained
\* follows the override stack: it returns what the top override returns.
C27_ProviderAccessor ==
  /\ AccessorYieldsFreshDelegate
  /\ (last.op = "provide" /\ last.wasOverridden /\ last.p \in SeqRange(delegates)) =>
        last.ret = provide(Top(last.p).v, last.args, Now).ret

\* C29: isOverridden() returns true exactly when the override stack is not
\* empty; the overrides accessor returns a new array that lists the stack in
\* push order; a mutation of such an array changes neither the provider's
\* stack nor what its provide() returns.
C29_OverridesSnapshot ==
  /\ last.op = "isOverridden" => last.ret = Bool(overriding[last.p] # << >>)
  /\ last.op = "overrides" =>
        /\ last.rets = overriding[last.p]
        /\ snapshots = << [of |-> last.p, items |-> overriding[last.p],
                           pushed |-> FALSE] >>
  /\ last.op = "mutate" =>
        /\ overriding[last.p] = last.before
        /\ provide(last.p, << >>, Now).ret = last.x

\* C29 witness: the application pushed a provider onto an array it got from
\* an overridden provider; the array differs from the stack
C29_Witness ==
  /\ last.op = "mutate"
  /\ Len(last.before) = 1
  /\ Len(last.rets) = 2
  /\ snapshots[1].items = last.rets
  /\ overriding[last.p] = last.before

\* C30: override stacks are per provider: a step of override,
\* resetLastOverriding or resetOverride on a provider p leaves the override
\* stack and the Singleton cache of every other provider unchanged, the
\* providers p depends on and the ones that depend on p included.
C30_StacksArePerProvider ==
  [][last'.op \in {"override", "resetLastOverriding", "resetOverride"} =>
        /\ \A q \in BaseIds \ {last'.p} : overriding'[q] = overriding[q]
        /\ \A s \in SingletonIds \ {last'.p} : instance'[s] = instance[s]]_vars

\* C30 witness: resetOverride emptied the stack of the Factory 1 while the
\* Singleton 2 was overridden and the Singleton 4 that the Factory depends on
\* held an object
C30_Witness ==
  /\ last.op = "resetOverride"
  /\ last.p = 1
  /\ Len(last.rets) = 1
  /\ overriding[1] = << >>
  /\ Len(overriding[2]) = 1
  /\ Prov(4) \in SeqRange(Providers[1].injectedArgs)
  /\ instance[4] = Obj(1)

\* C3: between construction (or the last resetInstance) and the next
\* resetInstance, the target of a non-overridden Singleton is invoked at most
\* once: the first provide() may invoke it, every later provide() returns the
\* value of the first call without invoking the target, whatever its
\* arguments.
C3_SingletonInvokesTargetOnce ==
  [][\A s \in Standalone \cap SingletonIds, args \in ProvideArgs :
        (ProvideCall(s, args) /\ ~IsOverridden(s)) =>
          IF firstRet[s] = NoVal
            THEN Count(last'.invoked, s) <= 1
            ELSE /\ last'.ret = firstRet[s]
                 /\ Count(last'.invoked, s) = 0]_vars

\* C4: the memoized value of a Singleton is unchanged by override,
\* resetLastOverriding, resetOverride and by every provide() made while the
\* Singleton is overridden; a value cached before is returned, without
\* invoking the target, once the stack is empty again.
C4_OverridesLeaveCacheAlone ==
  [][\A s \in Overridable \cap SingletonIds :
        /\ ( \/ \E x \in OverrideArgs : Override(s, x)
             \/ ResetLastOverriding(s)
             \/ ResetOverride(s)
             \/ \E args \in ProvideArgs : ProvideCall(s, args) /\ IsOverridden(s) )
            => instance'[s] = instance[s]
        /\ \A args \in ProvideArgs :
              (ProvideCall(s, args) /\ ~IsOverridden(s) /\ instance[s] # Null) =>
                 /\ last'.ret = instance[s]
                 /\ Count(last'.invoked, s) = 0]_vars

\* what override() is documented to reject: null, undefined, or a value whose
\* provide member is not a function
IsNullish(x) == x.t \in {"undef", "null"}
ProvideIsFunction(x) == x.t = "prov"

\* C10: override(x) raises an argument error whenever x is null or absent or
\* x.provide is not a function, and then leaves the override stack unchanged;
\* otherwise it raises nothing and x becomes the top of the stack
\* (last.before is the stack as the call found it).
C10_OverrideValidatesArgument ==
  last.op = "override" =>
    IF IsNullish(last.x) \/ ~ProvideIsFunction(last.x)
      THEN /\ last.err # "none"
           /\ overriding[last.p] = last.before
      ELSE /\ last.err = "none"
           /\ overriding[last.p] = Append(last.before, last.x)

\* C10 witness: override was refused on a provider that holds an override
C10_Witness ==
  /\ last.op = "override"
  /\ last.err # "none"
  /\ last.x = Plain(1)
  /\ Len(overriding[last.p]) > 0

\* C11: resetLastOverriding() on an empty override stack raises an error and
\* leaves the stack empty; resetOverride() on an empty stack raises nothing,
\* returns an empty list and leaves the stack empty.
C11_ResetOnEmptyStack ==
  /\ (last.op = "resetLastOverriding" /\ ~last.wasOverridden) =>
        /\ last.err # "none"
        /\ overriding[last.p] = << >>
  /\ (last.op = "resetOverride" /\ ~last.wasOverridden) =>
        /\ last.err = "none"
        /\ last.rets = << >>
        /\ overriding[last.p] = << >>

\* C11 witness: resetLastOverriding was refused on an empty stack while
\* another provider holds an override
C11_Witness ==
  /\ last.op = "resetLastOverriding"
  /\ last.err # "none"
  /\ \E q \in Overridable : q # last.p /\ Len(overriding[q]) > 0

\* the last step was a provide() on a provider that was not overridden
PlainProvide == last.op = "provide" /\ ~last.wasOverridden
\* ... and the provider invoked its own target (it does so after resolving
\* its injected arguments, so its invocation is the last one)
OwnInvoked ==
  /\ PlainProvide
  /\ last.invoked # << >>
  /\ last.invoked[Len(last.invoked)] = last.p
\* the argument list the provider passed to its own target
OwnArgs == last.passed[Len(last.passed)]
\* the injected arguments of the provider of the last step
Injected == Providers[last.p].injectedArgs
\* the merge context of the last step, when the caller passed none: {}
Ctx == IF last.args = << >> THEN Rec(<< >>) ELSE last.args[1]
KeysOf(pairs) == {pairs[k].k : k \in DOMAIN pairs}
Get(pairs, key) == pairs[CHOOSE k \in DOMAIN pairs : pairs[k].k = key].val
\* what a value of a defaults record, or an injected argument that is not an
\* Extend, resolves to in the state the call left
ResolvedValue(val) ==
  IF val.t = "prov" THEN provide(val.v, << >>, Now).ret ELSE val
\* the argument the target received for the j-th injected argument
ReceivedFor(j) == OwnArgs[Len(OwnArgs) - Len(Injected) + j]
\* the Extend arguments among the injected arguments
ExtendIdx == {j \in DOMAIN Injected : Injected[j].t = "extend"}
\* the number of resolutions of provider q that the injected arguments ask
\* for under the context c: one per injected argument that is q, one per
\* default that is q under a key absent from c
Asked(q, c) ==
  Cardinality({j \in DOMAIN Injected : Injected[j] = Prov(q)})
  + Cardinality({ << j, k >> \in ExtendIdx \X (1..3) :
                    /\ k \in DOMAIN Injected[j].v
                    /\ Injected[j].v[k].val = Prov(q)
                    /\ Injected[j].v[k].k \notin KeysOf(c) })

\* C12: every provide() call on a non-overridden Factory invokes its target
\* exactly once and returns the result of that invocation: a class target
\* yields an instance that did not exist before the call.
C12_FactoryInvokesTargetOnce ==
  (PlainProvide /\ Providers[last.p].kind = "Factory") =>
     /\ last.err = "none"
     /\ Count(last.invoked, last.p) = 1
     /\ Providers[last.p].target = "class" =>
           (last.ret = Obj(objCount) /\ objCount > last.objsBefore)

\* C13: a non-overridden Delegate(p).provide(...) returns the provider p
\* itself, whatever the arguments, the override stack and the cache of p,
\* and invokes nothing.
C13_DelegateReturnsProvider ==
  (PlainProvide /\ Providers[last.p].kind = "Delegate") =>
     /\ last.err = "none"
     /\ last.ret = Prov(Providers[last.p].delegated)
     /\ last.invoked = << >>
     /\ objCount = last.objsBefore

\* C13 witness: the Delegate is called with an argument while the provider
\* it wraps is overridden and holds a cached value
C13_Witness ==
  /\ PlainProvide
  /\ Providers[last.p].kind = "Delegate"
  /\ last.args = << Num(7) >>
  /\ Len(overriding[Providers[last.p].delegated]) > 0
  /\ instance[Providers[last.p].delegated] # Null
  /\ last.ret = Prov(Providers[last.p].delegated)

\* the providers held by the own properties of container c
ProvidersOf(c) ==
  {Apps[c][AppKeys[k]].v : k \in {j \in DOMAIN AppKeys : Apps[c][AppKeys[j]].t = "prov"}}

\* C14: two instances of a container class never share a Singleton's cached
\* value: a non-overridden provide() on the Singleton of one instance returns
\* a value distinct from what the other instance's Singleton holds, and
\* provide, resetInstance and override on the providers of one instance
\* leave the caches and override stacks of the other instance unchanged.
C14_InstancesAreIndependent ==
  [][\A c \in AppIds : \A d \in AppIds \ {c} :
        /\ (last'.op = "provide" /\ last'.p = Apps[c].db.v /\ ~last'.wasOverridden) =>
              last'.ret # instance'[Apps[d].db.v]
        /\ (last'.op \in {"provide", "resetInstance", "override"}
              /\ last'.p \in ProvidersOf(c)) =>
              \A q \in ProvidersOf(d) :
                 /\ overriding'[q] = overriding[q]
                 /\ q \in SingletonIds => instance'[q] = instance[q]]_vars

\* C14 witness: both instances resolved their Singleton, to two objects
C14_Witness ==
  /\ PlainProvide
  /\ last.p = Apps[2].db.v
  /\ last.ret = Obj(2)
  /\ instance[Apps[1].db.v] = Obj(1)
  /\ instance[Apps[2].db.v] = Obj(2)

\* the keys of App that initDeclarativeContainer mirrors: they hold a provider
\* and the class declares no static member under them
MirroredKeys ==
  {n \in DOMAIN AppKeys : /\ Apps[1][AppKeys[n]].t = "prov"
                           /\ ClassStatics[AppKeys[n]].kind = "absent"}

\* C28: after initDeclarativeContainer(App) every read of a mirrored static
\* member yields the provider that the one internal instance (the instance
\* of the first call) holds under the key, so a non-overridden provide() on
\* the static Singleton keeps returning its first value; that scope and
\* every instance the application constructs are independent (their
\* Singleton values differ, and provide, resetInstance, override,
\* resetOverride and resetProviderOverrides on one side leave the caches and
\* override stacks of the other side unchanged); a static member the class
\* declared itself is never replaced.
C28_StaticMirroring ==
  [][/\ \A key \in SeqRange(AppKeys) :
          ClassStatics[key].kind # "absent" =>
             /\ statics'[key] = ClassStatics[key]
             /\ StaticValue(key)' = ClassStatics[key].v
     /\ internals' # << >> =>
          /\ \A n \in MirroredKeys :
                /\ statics'[AppKeys[n]] = Getter(internals'[1])
                /\ (last'.op = "static" /\ last'.p = n) =>
                      last'.ret = Apps[internals'[1]][AppKeys[n]]
          /\ (/\ last'.op = "provide" /\ ~last'.wasOverridden
               /\ last'.p = Apps[internals'[1]].db.v
               /\ firstRet[last'.p] # NoVal) =>
                 last'.ret = firstRet[last'.p]
          /\ \A d \in OwnInstances' :
                /\ \A pair \in {<< internals'[1], d >>, << d, internals'[1] >>} :
                      /\ (/\ last'.op = "provide" /\ ~last'.wasOverridden
                           /\ last'.p = Apps[pair[1]].db.v) =>
                             last'.ret # instance'[Apps[pair[2]].db.v]
                      /\ (\/ /\ last'.op \in {"provide", "resetInstance", "override",
                                              "resetOverride"}
                              /\ last'.p \in ProvidersOf(pair[1])
                           \/ /\ last'.op = "resetProviderOverrides"
                              /\ last'.p = pair[1]) =>
                             \A q \in ProvidersOf(pair[2]) :
                                /\ overriding'[q] = overriding[q]
                                /\ q \in SingletonIds => instance'[q] = instance[q]]_vars

\* C28 witness: the static Singleton returned its cached object again after
\* an instance the application constructed resolved its own Singleton to
\* another object
C28_Witness ==
  /\ internals = << 1 >>
  /\ OwnInstances = {2}
  /\ statics.db = Getter(1)
  /\ instance[Apps[1].db.v] = Obj(1)
  /\ instance[Apps[2].db.v] = Obj(2)
  /\ PlainProvide
  /\ last.p = Apps[1].db.v
  /\ last.ret = Obj(1)
  /\ last.objsBefore = 2

\* C15: after container.resetProviderOverrides() every provider-valued own
\* property of the container has an empty override stack, and no Singleton
\* cache was changed by the call.
C15_ResetProviderOverrides ==
  [][\A c \in AppIds :
        (last'.op = "resetProviderOverrides" /\ last'.p = c) =>
           /\ \A p \in ProvidersOf(c) : overriding'[p] = << >>
           /\ instance' = instance]_vars

\* C15 witness: the call emptied a stack of a container whose Singleton holds
\* a cached value
C15_Witness ==
  /\ last.op = "resetProviderOverrides"
  /\ \E k \in DOMAIN last.rets : last.rets[k] > 0
  /\ instance[Apps[last.p].db.v] # Null
  /\ \A p \in ProvidersOf(last.p) : overriding[p] = << >>

\* C16: after container.resetSingletonInstances() every own Singleton of the
\* container has an empty cache, the override stacks and the caches of other
\* providers are unchanged, and the next non-overridden provide() of such a
\* Singleton invokes the target again and returns an instance that did not
\* exist before.
C16_ResetSingletonInstances ==
  [][\A c \in AppIds :
        /\ (last'.op = "resetSingletonInstances" /\ last'.p = c) =>
              /\ \A p \in ProvidersOf(c) \cap SingletonIds : instance'[p] = Null
              /\ \A q \in SingletonIds \ ProvidersOf(c) : instance'[q] = instance[q]
              /\ overriding' = overriding
        /\ (last'.op = "provide" /\ last'.p = Apps[c].db.v /\ ~last'.wasOverridden
              /\ instance[Apps[c].db.v] = Null) =>
              /\ Count(last'.invoked, last'.p) = 1
              /\ last'.ret = Obj(objCount')
              /\ objCount' > objCount]_vars

\* C16 witness: the call emptied a cache that held an object, while a
\* provider of the container is overridden
C16_Witness ==
  /\ last.op = "resetSingletonInstances"
  /\ last.rets = << Obj(1) >>
  /\ instance[Apps[last.p].db.v] = Null
  /\ \E p \in ProvidersOf(last.p) : overriding[p] # << >>

\* C39: resetSingletonInstances() of a container empties the caches of its
\* own Singletons only: a Singleton that no container owns, used as an
\* override of a container property and as an injected argument of another
\* provider, keeps its cached object through every reset, so the overridden
\* property returns, and the other provider is given, the object that this
\* Singleton returned first.
C39_ForeignSingletonsKeepTheirCache ==
  /\ firstRet[Foreign] # NoVal => instance[Foreign] = firstRet[Foreign]
  /\ last.op = "resetSingletonInstances" =>
        /\ instance[Apps[last.p].db.v] = Null
        /\ Len(last.rets) = 1
  /\ (last.op = "provide" /\ last.p # 1 /\ last.wasOverridden) =>
        /\ last.ret = firstRet[Foreign]
        /\ last.ret.t = "obj"
  /\ (last.op = "provide" /\ last.p = 1) =>
        last.passed[Len(last.passed)] = << firstRet[Foreign] >>

\* C39 witness: the first container was reset while its Singleton held an
\* object and was overridden by the foreign Singleton, which still holds
\* the object it made
C39_Witness ==
  /\ last.op = "resetSingletonInstances"
  /\ last.p = 1
  /\ last.rets = << Obj(1) >>
  /\ overriding[Apps[1].db.v] = << Prov(Foreign) >>
  /\ instance[Apps[1].db.v] = Null
  /\ instance[Foreign] = Obj(2)

\* C17: a Factory with an Extend(defaults) argument, resolved with a record
\* ctx as context, passes its target a record whose keys are those of
\* defaults and of ctx together; a key of ctx carries the value of ctx
\* unchanged, every other key the resolved default; a provider under a
\* default key present in ctx is not invoked for it, one under a key absent
\* from ctx is invoked exactly once for it.
C17_ExtendContextWins ==
  (OwnInvoked /\ ExtendIdx # {} /\ Ctx.t = "rec") =>
     /\ \A j \in ExtendIdx :
           LET merged == ReceivedFor(j)
               defaults == Injected[j].v
           IN /\ merged.t = "rec"
              /\ KeysOf(merged.v) = KeysOf(defaults) \cup KeysOf(Ctx.v)
              /\ Len(merged.v) = Cardinality(KeysOf(merged.v))
              /\ \A key \in KeysOf(Ctx.v) : Get(merged.v, key) = Get(Ctx.v, key)
              /\ \A key \in KeysOf(defaults) \ KeysOf(Ctx.v) :
                    Get(merged.v, key) = ResolvedValue(Get(defaults, key))
     /\ \A q \in ProvIds \ {last.p} : Count(last.invoked, q) = Asked(q, Ctx.v)

\* C17 witness: the context holds a provider under a key whose default is a
\* provider; the target received the provider of the context, unresolved,
\* and the default provider was not invoked
C17_Witness ==
  /\ OwnInvoked
  /\ last.p = 17
  /\ last.args = << Rec(<< [k |-> "logger", val |-> Prov(3)] >>) >>
  /\ Get(OwnArgs[1].v, "logger") = Prov(3)
  /\ Get(OwnArgs[1].v, "port") = Num(80)
  /\ Count(last.invoked, 16) = 0

\* C18: a non-overridden Factory or Singleton that invokes its target calls
\* it with the call arguments followed by the resolved injected arguments in
\* declaration order when no injected argument is an Extend, and with the
\* resolved injected arguments alone (a merged record in place of each
\* Extend) when one is.
C18_ArgumentList ==
  (OwnInvoked /\ Providers[last.p].kind \in {"Factory", "Singleton"}) =>
     /\ Len(OwnArgs) = (IF ExtendIdx = {} THEN Len(last.args) ELSE 0) + Len(Injected)
     /\ ExtendIdx = {} => SubSeq(OwnArgs, 1, Len(last.args)) = last.args
     /\ \A j \in DOMAIN Injected :
           IF j \in ExtendIdx
             THEN ReceivedFor(j).t = "rec"
             ELSE ReceivedFor(j) = ResolvedValue(Injected[j])

\* C18 witness: a Factory with an Extend and a provider as injected
\* arguments is called with a context and a second argument; its target
\* received the merged record and the resolved provider, nothing else
C18_Witness ==
  /\ OwnInvoked
  /\ last.p = 18
  /\ Len(last.args) = 2
  /\ OwnArgs = << Rec(<< [k |-> "timeout", val |-> Num(3000)] >>), Num(99) >>

\* C19: with an Extend argument, the merge context is the first call
\* argument when it is present and not nullish and the empty record
\* otherwise: provide(), provide(undefined) and provide(null) raise nothing
\* and pass the target exactly the resolved defaults.
C19_NullishContextIsEmpty ==
  (PlainProvide /\ ExtendIdx # {}
     /\ (last.args = << >> \/ last.args[1] \in {Undef, Null})) =>
     /\ last.err = "none"
     /\ OwnInvoked =>
           \A j \in ExtendIdx :
              /\ ReceivedFor(j).t = "rec"
              /\ KeysOf(ReceivedFor(j).v) = KeysOf(Injected[j].v)
              /\ \A key \in KeysOf(Injected[j].v) :
                    Get(ReceivedFor(j).v, key) = ResolvedValue(Get(Injected[j].v, key))

\* the objects of the resolved graph that resolveProviders copies: the
\* plain records and arrays
IsPlainContainer(n) == last.heap[n].kind \in {"obj", "arr"}
\* the objects it copies: those and the Maps and the Sets
IsCopied(n) == last.heap[n].kind \in CopiedKinds
\* what an item of a copied container has to be in the copy
CopyOf(v) ==
  IF v.t = "ref"
    THEN IF IsCopied(v.v) THEN New(last.resolved[v.v]) ELSE v
    ELSE IF v.t = "prov" THEN provide(v.v, << >>, Now).ret ELSE v

\* C20: resolving a plain record or array that references itself, directly
\* or through other plain records and arrays, completes; the result is a
\* new container, and every reference to a plain container in it points to
\* the new container made for it (a reference to the value itself points to
\* the result), never to an object of the input; everything else is the
\* resolved item.
C20_CyclesResolveToCopies ==
  (last.op = "resolve" /\ last.x = Ref(1) /\ IsPlainContainer(1)) =>
     /\ last.ret = New(last.resolved[1])
     /\ \A n \in 1..MaxNodes :
           (last.resolved[n] # 0 /\ IsPlainContainer(n)) =>
              /\ last.resolved[n] \in DOMAIN last.out
              /\ \A m \in 1..MaxNodes :
                    last.resolved[m] = last.resolved[n] => m = n
              /\ last.out[last.resolved[n]].kind = last.heap[n].kind
              /\ Len(last.out[last.resolved[n]].items) = Len(last.heap[n].items)
              /\ \A i \in DOMAIN last.heap[n].items :
                    /\ last.out[last.resolved[n]].items[i] = CopyOf(last.heap[n].items[i])
                    /\ last.heap[n].items[i].t = "ref"
                        /\ IsCopied(last.heap[n].items[i].v) =>
                           last.resolved[last.heap[n].items[i].v] # 0

\* C20 witness: a record that refers to an array and holds a provider, the
\* array referring back to the record and to itself
C20_Witness ==
  /\ last.op = "resolve"
  /\ last.heap[1] = [kind |-> "obj", items |-> << Ref(2), Prov(16) >>]
  /\ last.heap[2] = [kind |-> "arr", items |-> << Ref(1), Ref(2) >>]
  /\ last.ret = New(1)
  /\ last.out[1].items = << New(2), Num(99) >>
  /\ last.out[2].items = << New(1), New(2) >>

\* the places of the resolved value where the provider q stands: the value
\* itself and the items of the copied containers
ProviderSlots(q) ==
  Cardinality({ s \in (DOMAIN last.heap) \X (1..2) :
                  last.resolved[s[1]] # 0 /\ last.heap[s[1]].items[s[2]] = Prov(q) })
  + (IF last.x = Prov(q) THEN 1 ELSE 0)
\* the item i of the copied object n is v in the copy (a Set keeps its
\* members, not their positions)
CopiedAs(n, i, v) ==
  IF last.heap[n].kind = "set"
    THEN v \in SeqRange(last.out[last.resolved[n]].items)
    ELSE last.out[last.resolved[n]].items[i] = v

\* the object n is returned as the same object wherever it stands and is
\* never copied, so nothing it holds is resolved
ReturnedByIdentity(n) ==
  /\ last.resolved[n] = 0
  /\ last.x = Ref(n) => last.ret = Ref(n)
  /\ \A m \in DOMAIN last.heap, i \in 1..2 :
        (last.resolved[m] # 0 /\ last.heap[m].items[i] = Ref(n)) =>
           CopiedAs(m, i, Ref(n))

\* provide() was called on marked providers only, once per place where one
\* stands in the value or in a copied container
OnlyMarkedProvidersInvoked ==
  /\ \A j \in DOMAIN last.invoked : last.invoked[j] \in BaseIds
  /\ \A q \in {3, 16} : Count(last.invoked, q) = ProviderSlots(q)

\* C21, as stated: resolveProviders calls provide() only on providers that
\* carry PROVIDER_SYMBOL; every object that merely has a provide method (an
\* object literal or a class instance) and every other class instance is
\* returned as the same object wherever it stands, is never copied, its
\* provide method is not called and the providers in its fields are not
\* resolved.
C21_OnlyMarkedProvidersResolve ==
  last.op = "resolve" =>
     /\ OnlyMarkedProvidersInvoked
     /\ \A n \in DOMAIN last.heap :
           last.heap[n].kind \in {"inst", "duck", "ducklit"} => ReturnedByIdentity(n)

\* C21, amended: resolveProviders calls provide() only on providers that
\* carry PROVIDER_SYMBOL, once per place where one stands in the value or in
\* a copied container; a class instance, with or without a provide method,
\* is returned as the same object wherever it stands, is never copied and
\* the providers in its fields are not resolved; an object literal with a
\* provide method is a plain record: its provide function is not called and
\* is carried over, but the object is replaced by a new object wherever it
\* stands and the providers in its other fields are resolved.
C21_MarkedProvidersAndPlainRecords ==
  last.op = "resolve" =>
     /\ OnlyMarkedProvidersInvoked
     /\ \A n \in DOMAIN last.heap :
           /\ last.heap[n].kind \in {"inst", "duck"} => ReturnedByIdentity(n)
           /\ (last.heap[n].kind = "ducklit" /\ last.x = Ref(n)) =>
                 /\ last.resolved[n] # 0
                 /\ last.ret = New(last.resolved[n])
                 /\ last.out[last.resolved[n]].kind = "ducklit"
                 /\ last.out[last.resolved[n]].items[1] = Fn
                 /\ last.heap[n].items[2] = Prov(16) =>
                       last.out[last.resolved[n]].items[2] = Num(99)
                 /\ last.heap[n].items[2] = Prov(3) =>
                       last.out[last.resolved[n]].items[2] = Undef
                 /\ last.heap[n].items[2].t # "prov" =>
                       last.out[last.resolved[n]].items[2]
                          = CopyOf(last.heap[n].items[2])
           /\ \A m \in DOMAIN last.heap, i \in 1..2 :
                 (/\ last.heap[n].kind = "ducklit" /\ last.resolved[m] # 0
                  /\ last.heap[m].items[i] = Ref(n)) =>
                    /\ last.resolved[n] # 0
                    /\ CopiedAs(m, i, New(last.resolved[n]))

\* the class-instance case of C21: an array of a class instance with a
\* provide method, whose field holds a provider, and of a provider
C21_Witness_ClassInstance ==
  /\ last.op = "resolve"
  /\ last.x = Ref(1)
  /\ last.heap[1] = [kind |-> "arr", items |-> << Ref(2), Prov(16) >>]
  /\ last.heap[2] = [kind |-> "duck", items |-> << Prov(16), Num(1) >>]
  /\ last.ret = New(1)
  /\ last.out[1].items = << Ref(2), Num(99) >>
  /\ last.invoked = << 16 >>

\* C21 witness: an array of an object literal with a provide method, whose
\* other field holds a provider, and of a provider; the literal came out as
\* a new object with its provide function uncalled and its provider resolved
C21_Witness ==
  /\ last.op = "resolve"
  /\ last.x = Ref(2)
  /\ last.heap[1] = [kind |-> "ducklit", items |-> << Fn, Prov(16) >>]
  /\ last.heap[2] = [kind |-> "arr", items |-> << Ref(1), Prov(16) >>]
  /\ last.ret = New(1)
  /\ last.out = << [kind |-> "arr", items |-> << New(2), Num(99) >>],
                   [kind |-> "ducklit", items |-> << Fn, Num(99) >>] >>
  /\ last.invoked = << 16, 16 >>

\* null, undefined, a primitive, a function, a Date and a RegExp
IsLeaf(v) ==
  \/ v \in { Undef, Null, Num(1), Fn }
  \/ v.t = "ref" /\ last.heap[v.v].kind \in {"date", "regexp"}

\* C22: null, undefined, primitives, functions, Dates and RegExps come out
\* of resolveProviders as the same value, as the value passed and as an item
\* of an array, a Map, a Set or a plain record at any depth; no function is
\* invoked and no Date or RegExp is copied.
C22_LeavesPassThrough ==
  last.op = "resolve" =>
     /\ 0 \notin SeqRange(last.invoked)
     /\ IsLeaf(last.x) =>
           last.ret = last.x /\ last.out = << >> /\ last.invoked = << >>
     /\ \A n \in DOMAIN last.heap :
           /\ last.heap[n].kind \in {"date", "regexp"} => last.resolved[n] = 0
           /\ \A i \in 1..2 :
                 (last.resolved[n] # 0 /\ IsLeaf(last.heap[n].items[i])) =>
                    CopiedAs(n, i, last.heap[n].items[i])

\* C22 witness: a Map whose first value is a record, the record holding a
\* function under its first key
C22_Witness ==
  /\ last.op = "resolve"
  /\ last.x = Ref(2)
  /\ last.heap[2] = [kind |-> "map", items |-> << Ref(1), Num(1) >>]
  /\ last.heap[1].kind = "obj"
  /\ last.heap[1].items[1] = Fn
  /\ last.ret = New(1)
  /\ last.out[1].items = << New(2), Num(1) >>
  /\ last.out[2].items[1] = Fn

\* C23: an array, a Map and a plain record resolve to a new container of
\* the same kind with as many items, item i (the value under the i-th key)
\* being the resolution of item i of the input: a provider is replaced by
\* what its provide() returns, called with no arguments.
C23_StructurePreserved ==
  last.op = "resolve" =>
     /\ \A j \in DOMAIN last.passed : last.passed[j] = << >>
     /\ \A n \in DOMAIN last.heap :
           last.heap[n].kind \in {"arr", "map", "obj"} =>
              /\ last.x = Ref(n) =>
                    last.resolved[n] # 0 /\ last.ret = New(last.resolved[n])
              /\ last.resolved[n] # 0 =>
                    /\ last.resolved[n] \in DOMAIN last.out
                    /\ last.out[last.resolved[n]].kind = last.heap[n].kind
                    /\ Len(last.out[last.resolved[n]].items) = Len(last.heap[n].items)
                    /\ \A i \in DOMAIN last.heap[n].items :
                          last.out[last.resolved[n]].items[i]
                            = CopyOf(last.heap[n].items[i])

\* C23 witness: a Map of two providers, the first one returning its first
\* argument
C23_Witness ==
  /\ last.op = "resolve"
  /\ last.x = Ref(1)
  /\ last.heap[1] = [kind |-> "map", items |-> << Prov(3), Prov(16) >>]
  /\ last.ret = New(1)
  /\ last.out[1] = [kind |-> "map", items |-> << Undef, Num(99) >>]
  /\ last.invoked = << 3, 16 >>

\* C38: resolveProviders does not change the value it is given: after the
\* call every array, Map, Set and plain record of the injected value holds
\* the items it held before, the providers among them included, so that the
\* next call on the same value asks the same providers in the same order
\* and builds an equal result.
C38_ResolverLeavesInputAlone ==
  last.op = "resolve" =>
     /\ last.heap = last.before
     /\ last.prev # << >> =>
           /\ last.invoked = last.prev.invoked
           /\ last.ret = last.prev.ret
           /\ last.out = last.prev.out

\* C38 witness: an array of a provider and of a Set that holds the same
\* provider was resolved twice; both calls asked the provider twice and the
\* array and the Set still hold it
C38_Witness ==
  /\ last.op = "resolve"
  /\ last.x = Ref(1)
  /\ last.prev # << >>
  /\ last.heap[1] = [kind |-> "arr", items |-> << Prov(16), Ref(2) >>]
  /\ last.heap[2] = [kind |-> "set", items |-> << Prov(16), Num(1) >>]
  /\ last.invoked = << 16, 16 >>
  /\ last.prev.invoked = << 16, 16 >>
  /\ last.out[2].items = << Num(99), Num(1) >>

\* C32: within one resolveProviders call a provider is asked once per place
\* where it stands (the same Factory at two positions of an array is invoked
\* twice), whereas an array, a Map, a Set or a plain record that is reached
\* several times is resolved once: one new container is made for it and
\* every place that referred to it holds that same new container.
C32_ProvidersPerOccurrenceContainersOnce ==
  last.op = "resolve" =>
     /\ \A q \in {3, 16} : Count(last.invoked, q) = ProviderSlots(q)
     /\ Len(last.out) = Cardinality({ n \in DOMAIN last.heap : last.resolved[n] # 0 })
     /\ \A n \in DOMAIN last.heap :
           /\ (last.x = Ref(n) /\ IsCopied(n)) =>
                 last.resolved[n] # 0 /\ last.ret = New(last.resolved[n])
           /\ last.resolved[n] # 0 =>
                 /\ IsCopied(n)
                 /\ last.resolved[n] \in DOMAIN last.out
                 /\ last.out[last.resolved[n]].kind = last.heap[n].kind
                 /\ \A m \in DOMAIN last.heap :
                       last.resolved[m] = last.resolved[n] => m = n
                 /\ \A i \in 1..2, m \in DOMAIN last.heap :
                       (last.heap[n].items[i] = Ref(m) /\ IsCopied(m)) =>
                          /\ last.resolved[m] # 0
                          /\ CopiedAs(n, i, New(last.resolved[m]))

\* C32 witness: an array holding the same array twice, the inner array
\* holding the same Factory twice: one copy of the inner array at both
\* positions, the Factory invoked twice
C32_Witness ==
  /\ last.op = "resolve"
  /\ last.x = Ref(1)
  /\ last.heap[1] = [kind |-> "arr", items |-> << Ref(2), Ref(2) >>]
  /\ last.heap[2] = [kind |-> "arr", items |-> << Prov(16), Prov(16) >>]
  /\ last.ret = New(1)
  /\ last.out = << [kind |-> "arr", items |-> << New(2), New(2) >>],
                   [kind |-> "arr", items |-> << Num(99), Num(99) >>] >>
  /\ last.invoked = << 16, 16 >>

\* C33: when the target or the resolution of an injected argument raises
\* during the provide() of a Singleton whose cache is empty, the error
\* reaches the caller, the cache stays empty and no override stack changes;
\* a provide() on the empty cache of a Singleton that is not overridden runs
\* the construction again: the injected arguments are resolved anew, and
\* when nothing raises the target is invoked once and its new object is
\* returned and cached.
C33_FailedConstructionLeavesNoTrace ==
  [][(last'.op = "provide" /\ last'.p \in SingletonIds /\ instance[last'.p] = Null) =>
       /\ (\E j \in DOMAIN last'.invoked :
              Providers[last'.invoked[j]].target = "fnThrow") => last'.err = "Error"
       /\ last'.err # "none" =>
             /\ instance'[last'.p] = Null
             /\ overriding' = overriding
       /\ (overriding[last'.p] = << >> /\ last'.p = 21) =>
             /\ overriding[20] = << >> =>
                   Count(last'.invoked, 20) = 1 /\ last'.err = "Error"
             /\ (overriding[20] # << >>
                   /\ overriding[20][Len(overriding[20])] = Prov(5)) =>
                   Count(last'.invoked, 20) = 0 /\ last'.err = "none"
             /\ last'.err = "none" =>
                   /\ Count(last'.invoked, 21) = 1
                   /\ last'.ret = Obj(objCount + 1)
                   /\ instance'[21] = last'.ret]_vars

\* C33 witness: the Singleton 21 was asked while its injected Factory throws
\* and while the always failing Singleton 22 is overridden: the call ended
\* in the error and the cache is empty
C33_Witness ==
  /\ last.op = "provide"
  /\ last.p = 21
  /\ last.err = "Error"
  /\ last.invoked = << 20 >>
  /\ instance[21] = Null
  /\ overriding[20] = << >>
  /\ overriding[22] = << Prov(3) >>

\* the providers reached from the providers of S along injected arguments
\* and overrides, S included
RECURSIVE ReachedFrom(_, _)
ReachedFrom(S, k) ==
  IF k = 0
    THEN S
    ELSE ReachedFrom(S \cup (({ net.arg[p] : p \in S } \cup { net.over[p] : p \in S })
                                \ {0}), k - 1)
DependsOn(p) ==
  ReachedFrom({net.arg[p], net.over[p]} \ {0}, MaxChain)
\* the provider dependency graph has no cycle
Acyclic == \A p \in Chain : p \notin DependsOn(p)
\* the providers reached from p along injected arguments alone
RECURSIVE InjectedFrom(_, _)
InjectedFrom(p, k) ==
  IF k = 0 \/ p = 0
    THEN {}
    ELSE ({net.arg[p]} \ {0}) \cup InjectedFrom(net.arg[p], k - 1)
\* the injected arguments of r reach r through providers that are not
\* overridden
ArgsCycle(r) ==
  /\ r \in InjectedFrom(r, MaxChain)
  /\ \A q \in InjectedFrom(r, MaxChain) : net.over[q] = 0

\* C34: on an acyclic provider dependency graph (injected arguments and
\* overrides) every provide() returns to its caller, whether the injected
\* value graph is cyclic or not, and the call stack is never exhausted;
\* when the injected arguments of the provider asked lead back to it
\* through Factories or Singletons that are not overridden, the recursion
\* goes on until the call stack is exhausted and provide() never returns a
\* value, Singletons with an empty cache included.  (The call ends in both
\* cases; on an acyclic graph it cannot end by exhausting the stack, on
\* such a cycle it cannot end by returning.)
C34_TerminationOfProvide ==
  /\ [](Acyclic => run.status # "overflow")
  /\ [](run.status = "returned" => ~ArgsCycle(run.root))
  /\ (run.status = "running" /\ (Acyclic \/ ArgsCycle(run.root)))
        ~> (run.status \in {"returned", "overflow"})

\* C34 witness: a Singleton and a Factory that inject each other through
\* arrays that hold themselves; the call on the Singleton exhausted the
\* call stack and its cache is empty
C34_Witness ==
  /\ run.status = "overflow"
  /\ run.root = 1
  /\ net.kind = << "Singleton", "Factory" >>
  /\ net.arg = << 2, 1 >>
  /\ net.over = << 0, 0 >>
  /\ net.wrapped
  /\ cached[1] = "null"

\* ------------------------------------------------------------------------
\* Properties of the wiring engine
\* ------------------------------------------------------------------------
\* the containers of one createInject call whose activation no other
\* currently wired container precedes
EarliestWired(api) ==
  {c \in wiredSet[api] : \A d \in wiredSet[api] : << d, c >> \notin wiredBefore[api]}
NoneWired == \A api \in APIs : wiredSet[api] = {}
Intercepted == lastCall.op \in {"call", "new"}
\* the container has a provider under the key of the token
Resolvable(c, token) == c # 0 /\ Containers[c][token.key].t = "prov"
\* what the provider under the key of the token yields for the site
ValueFor(c, token) ==
  IF token.asProvider
    THEN Containers[c][token.key]
    ELSE provide(Containers[c][token.key].v, << >>, Now).ret
SubstAt(i) == {k \in DOMAIN lastCall.subst : lastCall.subst[k].paramIndex = i}

\* C5: wiring precedence is FIFO: every wrapper and every Injectable proxy
\* that runs in a call consults the earliest-wired container among those
\* currently wired through its createInject call (none when none is wired),
\* and every substituted value comes from such a container.
C5_WiringFifo ==
  Intercepted =>
    /\ \A k \in DOMAIN lastCall.used :
          LET u == lastCall.used[k]
          IN IF wiredSet[u.api] = {}
               THEN u.container = 0
               ELSE EarliestWired(u.api) = {u.container}
    /\ \A k \in DOMAIN lastCall.subst :
          LET s == lastCall.subst[k]
          IN /\ \E api \in APIs : EarliestWired(api) = {s.container}
             /\ s.value = ValueFor(s.container, s.token)

\* C5 witness: container 1 was wired, then 2, then 1 unwired and wired
\* again; the call is injected from container 2
C5_Witness ==
  /\ lastCall.op = "call"
  /\ wiredContainers["A"] = << 2, 1 >>
  /\ lastCall.args = << >>
  /\ lastCall.fwd = << Num(21) >>

\* C6: a decorated method is replaced by a wrapper at most once: once
\* target[propertyKey] holds a wrapper, no later wire or unwire call, with
\* any container, stores another function there.
C6_WrappedOnce ==
  [][\A m \in Methods : method[m] # << >> => method'[m] = method[m]]_vars

\* C35: the wiring state belongs to one createInject call: a method whose
\* parameters carry the markers of the call A is given injected values only
\* while a container is wired through A, and from the container wired first
\* through A, whatever is wired or unwired through another call B on the
\* same container class; and the method is wrapped at most once overall.
C35_WiringScopedToCreateInject ==
  lastCall.op = "call" =>
     /\ Len(method[lastCall.m]) <= 1
     /\ \A k \in DOMAIN lastCall.subst :
           /\ wiredContainers["A"] # << >>
           /\ lastCall.subst[k].container = wiredContainers["A"][1]

\* the sites of a callable that set the token of their parameter index: the
\* last site recorded for each index
TokenSites(ss) ==
  {k \in DOMAIN ss : ~\E j \in DOMAIN ss : j > k /\ ss[j].paramIndex = ss[k].paramIndex}

\* C36: while a container is wired, a call of a decorated method, and a
\* construction of a class that Injectable wrapped, receives the value of
\* the active container's provider at every decorated index whose argument
\* is missing, whether the parameter was decorated before or after the
\* wire() call that activated the container.  (Stated for the createInject
\* call A alone: nothing was ever wired through B.)
C36_InjectionWhateverTheOrder ==
  (wiredSet["A"] # {} /\ wiredSet["B"] = {} /\ wrappedMethods["B"] = {}) =>
     \A c \in EarliestWired("A") :
        /\ lastCall.op = "call" =>
              \A k \in TokenSites(sitesOf(sites, lastCall.m)) :
                 LET site == sitesOf(sites, lastCall.m)[k]
                 IN (NthArg(lastCall.args, site.paramIndex + 1) = Undef
                       /\ Resolvable(c, site.token)) =>
                      NthArg(lastCall.fwd, site.paramIndex + 1) = ValueFor(c, site.token)
        /\ (lastCall.op = "new" /\ injectable # << >> /\ injectable[1].api = "A") =>
              \A k \in TokenSites(ctorSites) :
                 (NthArg(lastCall.args, ctorSites[k].paramIndex + 1) = Undef
                    /\ Resolvable(c, ctorSites[k].token)) =>
                   NthArg(lastCall.fwd, ctorSites[k].paramIndex + 1)
                     = ValueFor(c, ctorSites[k].token)

\* C37: the active set of a createInject call holds each container at most
\* once, holds exactly the containers that were wired and not unwired since,
\* and iterates them in the order of the wire() calls that activated them:
\* wire() of a wired container leaves the order as it is, unwire() of a
\* container that is not wired changes nothing, and a container that is
\* unwired and wired again comes after every container that stayed wired.
C37_ActiveSetIsInsertionOrdered ==
  \A api \in APIs :
     LET active == wiredContainers[api]
     IN /\ \A i, j \in DOMAIN active : active[i] = active[j] => i = j
        /\ SeqRange(active) = wiredSet[api]
        /\ \A i, j \in DOMAIN active :
              i < j <=> << active[i], active[j] >> \in wiredBefore[api]

\* C37 witness: container 1 was wired, then 2, then 1 was unwired and wired
\* again: it stands after container 2
C37_Witness ==
  /\ wiredContainers["A"] = << 2, 1 >>
  /\ wiredBefore["A"] = {<< 2, 1 >>}
  /\ wiredSet["A"] = {1, 2}
  /\ wiredContainers["B"] = << 1 >>

\* C7: unwire only removes the container from the active set and never puts
\* the original method back; once no container is wired, a call of a wrapped
\* method forwards the caller's arguments as they are, a missing argument
\* staying undefined at its position.
C7_UnwireKeepsWrapper ==
  [][/\ \A api \in APIs, c \in ContIds :
          unwire(api, c) =>
             /\ method' = method
             /\ injectable' = injectable
             /\ wrappedMethods' = wrappedMethods
             /\ wiredSet'[api] = wiredSet[api] \ {c}
     /\ \A m \in Methods, args \in CallArgs :
          (NoneWired /\ lastCall'.args = args /\ Call(m, args)) =>
             /\ lastCall'.fwd = args
             /\ lastCall'.origCalls = 1
             /\ \A site \in MarkerUses :
                   NthArg(args, site.paramIndex + 1) = Undef =>
                      NthArg(lastCall'.fwd, site.paramIndex + 1) = Undef]_vars

\* C7 witness: a method wrapped by wire is called with a missing argument
\* after every container was unwired
C7_Witness ==
  /\ lastCall.op = "call"
  /\ lastCall.args = << >>
  /\ lastCall.used # << >>
  /\ method[lastCall.m] # << >>
  /\ NoneWired
  /\ lastCall.fwd = << >>

\* the substitutions of the last call made for a plain marker
PlainSubst == SelectSeq(lastCall.subst, LAMBDA s : ~s.token.asProvider)
\* the property of the container that a substitution was made from
PropertyOf(s) == Containers[s.container][s.token.key]

\* C24: a missing parameter decorated with marker.provider receives the
\* provider object held by the property of the active container itself,
\* and the injection does not invoke the target of that provider; a missing
\* parameter decorated with the plain marker receives what provide() of
\* that property returns.  The targets invoked by a call are those of the
\* plain substitutions, in order.
C24_ProviderMarkerInjectsProvider ==
  Intercepted =>
    /\ \A k \in DOMAIN lastCall.subst :
          /\ IF lastCall.subst[k].token.asProvider
               THEN /\ lastCall.subst[k].value = PropertyOf(lastCall.subst[k])
                    /\ isProviderLike(lastCall.subst[k].value)
               ELSE lastCall.subst[k].value
                      = provide(PropertyOf(lastCall.subst[k]).v, << >>, Now).ret
          /\ (\A j \in 1..(k - 1) :
                 lastCall.subst[j].paramIndex # lastCall.subst[k].paramIndex) =>
                NthArg(lastCall.fwd, lastCall.subst[k].paramIndex + 1)
                  = lastCall.subst[k].value
    /\ lastCall.invoked = [k \in DOMAIN PlainSubst |-> PropertyOf(PlainSubst[k]).v]

\* C24 witness: parameter 0 carries the marker.provider of "a", parameter 1
\* the marker of "b"; container 1 is active
C24_Witness ==
  /\ lastCall.op = "call"
  /\ lastCall.args = << >>
  /\ lastCall.fwd = << Prov(6), Num(12) >>
  /\ lastCall.invoked = << 7 >>

\* C25: Injectable applied to the class K returns K itself when no
\* constructor site is recorded for K and a Proxy otherwise.  Every
\* construction through the Proxy looks up the first container wired, at
\* that moment, through the createInject call of the Proxy: with none wired
\* the arguments reach the constructor as passed; otherwise every index
\* recorded for K whose argument is missing or undefined and for which
\* that container holds a provider receives the value of that provider.
\* Without a Proxy the arguments reach the constructor as passed.
C25_ConstructorInjection ==
  /\ (lastCall.op = "Injectable" /\ lastCall.m = "K") =>
        (injectable = << >>
           <=> \A k \in DOMAIN ctorSites : ctorSites[k].constructor # "K")
  /\ (lastCall.op = "new" /\ injectable = << >>) => lastCall.fwd = lastCall.args
  /\ (lastCall.op = "new" /\ injectable # << >>) =>
        IF wiredSet[injectable[1].api] = {}
          THEN lastCall.fwd = lastCall.args
          ELSE \A c \in EarliestWired(injectable[1].api) :
                 \A k \in DOMAIN injectable[1].tokensByIndex :
                    (/\ NthArg(lastCall.args, injectable[1].tokensByIndex[k].paramIndex + 1)
                          = Undef
                     /\ Resolvable(c, injectable[1].tokensByIndex[k].token)) =>
                       NthArg(lastCall.fwd, injectable[1].tokensByIndex[k].paramIndex + 1)
                         = ValueFor(c, injectable[1].tokensByIndex[k].token)

\* C25 witness: container 1 was wired, then 2, then 1 unwired and wired
\* again after the class was decorated; the construction is injected from
\* container 2
C25_Witness ==
  /\ lastCall.op = "new"
  /\ injectable # << >>
  /\ wiredContainers[injectable[1].api] = << 2, 1 >>
  /\ lastCall.args = << >>
  /\ lastCall.fwd = << Num(21) >>

\* the parameter indices of a callable that carry a marker
DecoratedIdx(m) ==
  {sites[k].paramIndex : k \in {j \in DOMAIN sites : sites[j].m = m}}
  \cup {ctorSites[k].paramIndex : k \in {j \in DOMAIN ctorSites : ctorSites[j].constructor = m}}

\* C31: injection is evaluated at call time: the first value a wired call
\* substitutes for a missing argument is what provide() of the active
\* container's property returns in the state of the call, so that an
\* override on top of the stack at that moment supplies the value, and a
\* Singleton that is not overridden supplies its cached object, or a new one
\* when its cache is empty (never filled or reset before the call).
C31_InjectionAtCallTime ==
  (lastCall.op = "call" /\ lastCall.subst # << >>
     /\ ~lastCall.subst[1].token.asProvider) =>
    LET s == lastCall.subst[1]
        p == Containers[s.container][s.token.key].v
        stacks == lastCall.pre[1]
        caches == lastCall.pre[2]
        objs == lastCall.pre[3]
    IN /\ overriding = stacks =>
             s.value = provide(p, << >>, [Now EXCEPT !.inst = caches, !.objs = objs]).ret
       /\ (p \in SingletonIds /\ stacks[p] = << >>) =>
             IF caches[p] = Null
               THEN s.value = Obj(objs + 1) /\ Count(lastCall.invoked, p) = 1
               ELSE s.value = caches[p] /\ Count(lastCall.invoked, p) = 0
       /\ (stacks[p] # << >> /\ stacks[p][Len(stacks[p])] = Prov(5)) =>
             /\ s.value = Num(Providers[5].num)
             /\ Count(lastCall.invoked, p) = 0

\* C31 witness: the Singleton of the wired container had cached an object
\* and was overridden after wire(); the call is injected from the override
C31_Witness ==
  /\ lastCall.op = "call"
  /\ lastCall.args = << >>
  /\ wiredContainers["A"] = << Reconfigured >>
  /\ instance[Containers[Reconfigured].a.v] = Obj(1)
  /\ overriding[Containers[Reconfigured].a.v] = << Prov(5) >>
  /\ lastCall.pre = << overriding, instance, objCount >>
  /\ lastCall.fwd = << Num(42) >>

\* C8: an intercepted call substitutes a value only at a decorated index
\* whose argument is missing or strictly undefined; every other argument is
\* forwarded unchanged; the original method is invoked exactly once, with
\* the receiver of the call, and its result is returned.
C8_OnlyMissingDecoratedArgs ==
  Intercepted =>
    /\ Len(lastCall.fwd) >= Len(lastCall.args)
    /\ \A i \in 0..(Len(lastCall.fwd) - 1) :
          NthArg(lastCall.fwd, i + 1) # NthArg(lastCall.args, i + 1) =>
             /\ i \in DecoratedIdx(lastCall.m)
             /\ NthArg(lastCall.args, i + 1) = Undef
    /\ lastCall.origCalls = 1
    /\ lastCall.op = "call" =>
          /\ lastCall.thisSeen = Receiver
          /\ lastCall.ret = NthArg(lastCall.fwd, 1)

\* C8 witness: both parameters are decorated; the undefined one is
\* substituted, the supplied one is kept
C8_Witness ==
  /\ lastCall.op = "call"
  /\ DecoratedIdx(lastCall.m) = {0, 1}
  /\ lastCall.args = << Undef, Num(3) >>
  /\ lastCall.fwd = << Num(11), Num(3) >>

\* C9: unresolvable injection is never an error: a substitution is made only
\* from the first active container and only when that container holds a
\* provider for the token; with no container wired, or no such provider (a
\* later-wired container may have one), the argument reaches the original
\* callable as the caller left it and the call completes.
C9_UnresolvableIsSilent ==
  Intercepted =>
    /\ \A k \in DOMAIN lastCall.subst :
          LET s == lastCall.subst[k]
          IN /\ Resolvable(s.container, s.token)
             /\ \E j \in DOMAIN lastCall.used :
                   /\ lastCall.used[j].container = s.container
                   /\ EarliestWired(lastCall.used[j].api) = {s.container}
    /\ \A i \in 0..(Len(lastCall.fwd) - 1) :
          SubstAt(i) = {} =>
             NthArg(lastCall.fwd, i + 1) = NthArg(lastCall.args, i + 1)
    /\ (lastCall.subst = << >>) => lastCall.fwd = lastCall.args
    /\ lastCall.origCalls = 1

\* C9 witness: the first active container 2 has no provider under "b", the
\* later-wired container 1 has one; the parameter decorated with the marker
\* of "b" stays undefined
C9_Witness ==
  /\ lastCall.op = "call"
  /\ wiredContainers["A"] = << 2, 1 >>
  /\ \E k \in DOMAIN sites : sites[k].token = getTokenFor("b") /\ sites[k].paramIndex = 1
  /\ lastCall.used # << >>
  /\ lastCall.args = << Num(3), Undef >>
  /\ lastCall.fwd = << Num(3), Undef >>

====
